---- MODULE Spec2Model ----
(***************************************************************************)
(* Model of github.com/rannday/logx: the reconfiguration controller        *)
(* (Configure / Reset / SetLogger / SetLevel / Logger, src/logx.go         *)
(* 448-660), the redacted-key set with its handler (src/redaction.go),     *)
(* the handler chain that buildLogger composes (src/logx.go 572-582,       *)
(* 751-792) and the size-based file rotator (src/rotator.go).              *)
(*                                                                         *)
(* Goroutines are the processes Procs.  Every statement that touches       *)
(* package-level state is one step, so the interleavings of the Go         *)
(* program are the behaviours of the model.                                *)
(***************************************************************************)
EXTENDS Integers, Sequences, FiniteSets, TLC

\* ---------------------------------------------------------------- bounds
NumProcs == 2       \* goroutines
MaxOps   == 3       \* operations started in one behaviour
MaxSeqOps == 4      \* operations started by a lone caller
MaxSinks == 2       \* closable sinks created in one behaviour
MaxKeys  == 2       \* keys in one SetRedactedKeys call
MaxAttrs == 2       \* attributes of one record
MaxChildren == 2    \* terminal handlers under one multiHandler
MaxChainOps == 2    \* operations started by the caller of a handler chain
MaxRotOps == 3      \* Write and Close calls on one fileRotator
MaxClock == 7       \* half seconds the wall clock is followed for
MaxTestClock == 9   \* the same, for the test of the rotator
MaxParams == 2      \* pieces of the query of one URL
MaxURLOps == 2      \* operations started by the caller of SanitizeURL
MaxPruneOps == 3    \* Writes of the goroutine on a directory with backups
MaxLargeOps == 3    \* Write and Close calls on a rotator of a large file

\* ------------------------------------------------------ program constants
LevelDebug == -4
LevelInfo  == 0
LevelWarn  == 4
LevelError == 8

Procs == 1..NumProcs

\* The nil *slog.Logger.  A logger is a record of its terminal sinks h (in
\* handler order), the LevelVar lv its handlers filter on, and the call that
\* built it (by), which tells apart the objects of different calls.
Nil == [kind |-> "nil"]

\* os.Stderr as a terminal sink of a handler; closable sinks are 1, 2, ...
Stderr == 0
\* The sink of a logger handed to SetLogger (a caller's buffer).
ExtBuf == -1

VARIABLES
  logger,          \* package var logger: Nil or a logger record
  currentCloser,   \* package var currentCloser: 0 (nil) or a sink
  levelVar,        \* package var levelVar: index of a LevelVar in lvVal
  lvVal,           \* the LevelVar objects allocated so far
  useColor,        \* package var useColor
  loggerMu,        \* 0, or the process holding loggerMu.Lock()
  redactedKeys,    \* package var redactedKeys: index of a map in maps
  redactedKeysSnapshot, \* atomic.Value: index of a map in maps
  redactedKeysMu,  \* 0, or the process holding redactedKeysMu.Lock()
  maps,            \* the map[string]struct{} objects allocated so far
  sinks,           \* kind of every closable sink created so far
  pc,              \* position of every goroutine
  loc,             \* locals of every goroutine
  opsLeft,         \* operations that may still be started
  closeCount,      \* history: Close calls issued on every sink
  supplied,        \* history: times a sink was handed to Configure
  installed,       \* history: sinks that were stored in currentCloser
  content,         \* history: records delivered to every sink
  epochs,          \* history: the sinks each returned swap was asked for
  lazyCommits,     \* history: default configurations committed since nil
  quiet,           \* history: a Reset (and a following log call) run alone
  complete,        \* history: key sets that whole mutation calls produce
  added,           \* history: keys of the returned Set/Add calls since a Clear
  maxStackBytes,   \* package var maxStackBytes
  rotator,         \* the fileRotator object: f, size, maxSize, backups, mu
  handles,         \* the *os.File objects opened so far
  inodes,          \* content of every file created so far
  dir,             \* the directory of the log file: name -> file
  clock,           \* the last reading of time.Now(), in half seconds
  writes           \* history: the Write calls on the rotator

vars == <<logger, currentCloser, levelVar, lvVal, useColor, loggerMu,
          redactedKeys, redactedKeysSnapshot, redactedKeysMu, maps, sinks,
          pc, loc, opsLeft, closeCount, supplied, installed, content,
          epochs, lazyCommits, quiet, complete, added, maxStackBytes,
          rotator, handles, inodes, dir, clock, writes>>

ctlVars == <<logger, currentCloser, levelVar, lvVal, useColor, loggerMu>>
redVars == <<redactedKeys, redactedKeysSnapshot, redactedKeysMu, maps>>
histVars == <<closeCount, supplied, installed, content, epochs, lazyCommits>>
rotVars == <<rotator, handles, inodes, dir, clock, writes>>

\* ------------------------------------------------------------- strings
\* A key is a sequence of ASCII code points.
ToLowerChar(c) == IF c \in 65..90 THEN c + 32 ELSE c

ToLower(s) == [i \in DOMAIN s |-> ToLowerChar(s[i])]

\* ------------------------------------------------------------- inputs
GoodPath == "app.log"
BadPath  == "/invalid/path/should/fail.log"

Cfg(level, console, path, maxSize, writer) ==
  [Level |-> level, Console |-> console, FilePath |-> path,
   FileMaxSizeBytes |-> maxSize, FileWriter |-> writer]

\* Config values handed to Configure; FileWriter 0 is nil and -1 stands for
\* a writer of the caller, which StartConfigure chooses.
Configs ==
  { Cfg(LevelInfo, TRUE, "", 0, 0),
    Cfg(LevelDebug, FALSE, GoodPath, 0, 0),
    Cfg(LevelInfo, TRUE, GoodPath, 100, 0),
    Cfg(LevelInfo, FALSE, BadPath, 0, 0),
    Cfg(LevelInfo, FALSE, BadPath, 100, 0),
    Cfg(LevelDebug, TRUE, BadPath, 100, 0),
    Cfg(LevelInfo, FALSE, "", 0, -1) }

\* Keys are drawn from "P", "p" and "q".
Keys == {<<80>>, <<112>>, <<113>>}

SeqsUpTo(S, n) == UNION {[1..k -> S] : k \in 0..n}

\* Argument lists of SetRedactedKeys / AddRedactedKeys.
KeyArgs == SeqsUpTo(Keys, MaxKeys)

\* Attribute lists of the records handed to redactionHandler.Handle.
Records == SeqsUpTo([key : Keys, val : {"v"}], MaxAttrs)

\* Config{Level: slog.LevelInfo, Console: true} of Logger().
DefaultConfig == Cfg(LevelInfo, TRUE, "", 0, 0)

\* Time, level and message of the records of SpecRed, and no record.
Hdr0 == [time |-> 1, level |-> LevelInfo, msg |-> "m"]

NoRecord == [time |-> 0, level |-> LevelInfo, msg |-> "", attrs |-> <<>>]

Loc0 ==
  [op |-> "", cfg |-> DefaultConfig, lazy |-> FALSE, ret |-> "idle",
   nextLogger |-> Nil, nextCloser |-> 0, err |-> FALSE,
   opts |-> 0, prevCloser |-> 0, l |-> Nil, i |-> 0, tag |-> 0, level |-> 0,
   keys |-> <<>>, want |-> {}, snap |-> 0, seen |-> {}, rec |-> <<>>,
   out |-> <<>>, mine |-> {}, calm |-> FALSE,
   h |-> [kind |-> "passthrough"], hdr |-> Hdr0, fwd |-> NoRecord,
   passes |-> 0, seen0 |-> {}, cleared |-> FALSE, calls |-> <<>>, herr |-> 0,
   base |-> [kind |-> "passthrough"], stacktraceLevel |-> 0, bound |-> <<>>,
   r0 |-> NoRecord, ok |-> FALSE, n |-> 0, wid |-> 0, wasNil |-> FALSE,
   u |-> [nil |-> TRUE, base |-> "", rawQuery |-> <<>>],
   s |-> [base |-> "", query |-> <<>>]]

QuietNone == [stage |-> "none", sink |-> 0, cc |-> 0, content |-> {}]

\* No Set/Add call has returned since the key set was last empty.
NoneAdded == [keys |-> {}, raced |-> FALSE]

Range(f) == {f[i] : i \in DOMAIN f}

OthersIdle(p) == \A q \in Procs \ {p} : pc[q] = "idle"

\* q is inside SetRedactedKeys, AddRedactedKeys or ClearRedactedKeys.
Mutating(q) ==
  pc[q] \in {"set_lock", "set_loop", "clr_lock", "clr_new", "clr_store"}

\* ---------------------------------------------------------------- init
\* No fileRotator has been constructed and the log directory is empty.
NoRotator ==
  /\ rotator = [f |-> 0, size |-> 0, maxSize |-> 0, backups |-> 0, mu |-> 0]
  /\ handles = <<>>
  /\ inodes = <<>>
  /\ dir = <<>>
  /\ clock = 1
  /\ writes = <<>>

\* The package-level variables as their declarations leave them.
InitPackage(ops) ==
  /\ logger = Nil
  /\ currentCloser = 0
  /\ levelVar = 1
  /\ lvVal = <<LevelInfo>>
  /\ useColor = FALSE
  /\ loggerMu = 0
  /\ redactedKeys = 1
  /\ redactedKeysSnapshot = 2
  /\ redactedKeysMu = 0
  /\ maps = <<{}, {}>>
  /\ sinks = <<>>
  /\ pc = [p \in Procs |-> "idle"]
  /\ loc = [p \in Procs |-> Loc0]
  /\ opsLeft = ops
  /\ closeCount = <<>>
  /\ supplied = <<>>
  /\ installed = {}
  /\ content = [s \in {ExtBuf, Stderr} |-> {}]
  /\ epochs = <<>>
  /\ lazyCommits = 0
  /\ quiet = QuietNone
  /\ complete = {{}}
  /\ added = NoneAdded
  /\ maxStackBytes = 64 * 1024

InitWith(ops) == InitPackage(ops) /\ NoRotator

Init == InitWith(MaxOps)

\* ------------------------------------------------------------ helpers
\* What starting operation op by p does to the record of a lone Reset.
QuietStart(p, op) ==
  IF op = "Reset" /\ OthersIdle(p)
    THEN [QuietNone EXCEPT !.stage = "reset"]
    ELSE IF op = "Log" /\ quiet.stage = "resetdone" /\ OthersIdle(p)
      THEN [quiet EXCEPT !.stage = "log"]
      ELSE QuietNone

\* Goroutines are interchangeable, so a new call runs on the first free one.
Begin(p, op, first, l) ==
  /\ pc[p] = "idle"
  /\ \A q \in Procs : q < p => pc[q] # "idle"
  /\ opsLeft > 0
  /\ opsLeft' = opsLeft - 1
  /\ pc' = [pc EXCEPT ![p] = first]
  /\ loc' = [loc EXCEPT ![p] = l]
  /\ quiet' = QuietStart(p, op)

Goto(p, to) == pc' = [pc EXCEPT ![p] = to]

\* A sink the program has not used before.
NewSink(kind) ==
  /\ sinks' = Append(sinks, kind)
  /\ closeCount' = Append(closeCount, 0)
  /\ content' = content @@ (Len(sinks) + 1 :> {})

\* Sinks that a started Configure may still create.
PendingOpens ==
  Cardinality({q \in Procs : /\ pc[q] \in {"cfg_build", "cfg_color", "cfg_file"}
                             /\ loc[q].cfg.FilePath = GoodPath})

\* os.OpenFile / newFileRotator succeed exactly on a path that can be opened
\* (src/rotator.go 26-40, src/logx.go 546-556).
Openable(path) == path = GoodPath

\* ------------------------------------------------------------ Configure
\* Mutant of Handlers: the stderr fallback is missing.
HandlersNoFallback(cfg, fileWriter) ==
  (IF cfg.Console THEN <<Stderr>> ELSE <<>>) \o
  (IF fileWriter # 0 THEN <<fileWriter>> ELSE <<>>)

\* buildLogger's choice of handlers (src/logx.go 514-570): the console
\* handler, then the file handler, and the stderr fallback when there is none.
Handlers(cfg, fileWriter) ==
  LET console == IF cfg.Console THEN <<Stderr>> ELSE <<>>
      file == IF fileWriter # 0 THEN <<fileWriter>> ELSE <<>>
      handlers == console \o file
  IN IF Len(handlers) = 0 THEN <<Stderr>> ELSE handlers

\* A caller starts Configure(cfg).  A FileWriter is an object of the caller:
\* a new one, or one it has handed to Configure before.
StartConfigure(p) ==
  \E c \in Configs :
    /\ Len(sinks) + PendingOpens + 1 <= MaxSinks \/ c.FilePath # GoodPath
    /\ \/ /\ c.FileWriter = 0
          /\ Begin(p, "Configure", "cfg_build",
                   [Loc0 EXCEPT !.op = "Configure", !.cfg = c])
          /\ UNCHANGED <<sinks, closeCount, content, supplied>>
       \/ /\ c.FileWriter = -1
          /\ Len(sinks) + PendingOpens + 1 <= MaxSinks
          /\ NewSink("writer")
          /\ supplied' = Append(supplied, 1)
          /\ Begin(p, "Configure", "cfg_build",
                   [Loc0 EXCEPT !.op = "Configure",
                                !.cfg = [c EXCEPT !.FileWriter = Len(sinks) + 1]])
       \/ /\ c.FileWriter = -1
          /\ \E w \in {s \in DOMAIN sinks : sinks[s] = "writer"} :
               /\ supplied' = [supplied EXCEPT ![w] = @ + 1]
               /\ Begin(p, "Configure", "cfg_build",
                        [Loc0 EXCEPT !.op = "Configure",
                                     !.cfg = [c EXCEPT !.FileWriter = w]])
          /\ UNCHANGED <<sinks, closeCount, content>>
    /\ UNCHANGED <<ctlVars, redVars, installed, epochs, lazyCommits,
                   complete,
                 added, maxStackBytes, rotVars>>

\* detectColor() (src/logx.go 885-914) reports what the environment and
\* stderr are at the call: either answer.
detectColor == BOOLEAN

\* buildLogger runs without loggerMu; its accesses to shared state are
\* separate steps. First opts := &slog.HandlerOptions{Level: levelVar, ...}:
\* the read of the package variable levelVar (src/logx.go 509-512).
BuildOpts(p) ==
  /\ pc[p] = "cfg_build"
  /\ loc' = [loc EXCEPT ![p].opts = levelVar]
  /\ Goto(p, IF loc[p].cfg.Console THEN "cfg_color" ELSE "cfg_file")
  /\ UNCHANGED <<ctlVars, redVars, sinks, opsLeft, histVars, quiet, complete,
                 added, maxStackBytes, rotVars>>

\* if cfg.Console { colorEnabled := detectColor(); useColor = colorEnabled }
\* (src/logx.go 516-518): an unlocked write of the package variable.
BuildColor(p) ==
  /\ pc[p] = "cfg_color"
  /\ \E colorEnabled \in detectColor : useColor' = colorEnabled
  /\ Goto(p, "cfg_file")
  /\ UNCHANGED <<logger, currentCloser, levelVar, lvVal, loggerMu, redVars,
                 sinks, loc, opsLeft, histVars, quiet, complete,
                 added, maxStackBytes, rotVars>>

\* The file sink is opened when no FileWriter was given and FilePath is set,
\* then the handlers are composed over opts and the logger, the closer and
\* the error are returned (src/logx.go 532-583).
BuildFile(p) ==
  /\ pc[p] = "cfg_file"
  /\ LET cfg == loc[p].cfg
         opens == cfg.FileWriter = 0 /\ cfg.FilePath # "" /\ Openable(cfg.FilePath)
         failed == cfg.FileWriter = 0 /\ cfg.FilePath # "" /\ ~Openable(cfg.FilePath)
         fileWriter == IF cfg.FileWriter # 0 THEN cfg.FileWriter
                       ELSE IF opens THEN Len(sinks) + 1 ELSE 0
     IN /\ IF opens
             THEN /\ NewSink(IF cfg.FileMaxSizeBytes > 0 THEN "rotator" ELSE "file")
                  /\ supplied' = Append(supplied, 1)
             ELSE UNCHANGED <<sinks, closeCount, content, supplied>>
        /\ loc' = [loc EXCEPT ![p].nextLogger =
                                 [kind |-> "logger",
                                  h |-> Handlers(cfg, fileWriter),
                                  lv |-> loc[p].opts,
                                  by |-> IF loc[p].lazy THEN "Logger"
                                         ELSE "Configure"],
                              ![p].nextCloser = fileWriter,
                              ![p].err = failed]
  /\ Goto(p, "cfg_lock")
  /\ UNCHANGED <<ctlVars, redVars, opsLeft, installed, epochs, lazyCommits,
                 quiet, complete, added, maxStackBytes, rotVars>>

\* Mutant of CfgLock: the commit runs without taking loggerMu.
CfgLockNoMutex(p) ==
  /\ pc[p] = "cfg_lock"
  /\ loc' = [loc EXCEPT ![p].prevCloser = currentCloser]
  /\ Goto(p, "cfg_setlevel")
  /\ UNCHANGED <<ctlVars, redVars, sinks, opsLeft, histVars, quiet,
                 complete,
                 added, maxStackBytes, rotVars>>

\* loggerMu.Lock(); prevCloser := currentCloser (src/logx.go 493-494).
CfgLock(p) ==
  /\ pc[p] = "cfg_lock"
  /\ loggerMu = 0
  /\ loggerMu' = p
  /\ loc' = [loc EXCEPT ![p].prevCloser = currentCloser]
  /\ Goto(p, "cfg_setlevel")
  /\ UNCHANGED <<logger, currentCloser, levelVar, lvVal, useColor, redVars,
                 sinks, opsLeft, histVars, quiet, complete,
                 added, maxStackBytes, rotVars>>

\* levelVar.Set(cfg.Level) (src/logx.go 495).
CfgSetLevel(p) ==
  /\ pc[p] = "cfg_setlevel"
  /\ lvVal' = [lvVal EXCEPT ![levelVar] = loc[p].cfg.Level]
  /\ Goto(p, "cfg_logger")
  /\ UNCHANGED <<logger, currentCloser, levelVar, useColor, loggerMu, redVars,
                 sinks, loc, opsLeft, histVars, quiet, complete,
                 added, maxStackBytes, rotVars>>

\* Mutant of CfgLogger: the logger is installed once only, as under a sync.Once.
CfgLoggerOnce(p) ==
  /\ pc[p] = "cfg_logger"
  /\ logger' = IF logger = Nil THEN loc[p].nextLogger ELSE logger
  /\ lazyCommits' = IF loc[p].lazy THEN lazyCommits + 1 ELSE lazyCommits
  /\ Goto(p, "cfg_closer")
  /\ UNCHANGED <<currentCloser, levelVar, lvVal, useColor, loggerMu, redVars,
                 sinks, loc, opsLeft, closeCount, supplied, installed,
                 content, epochs, quiet, complete,
                 added, maxStackBytes, rotVars>>

\* logger = nextLogger (src/logx.go 496).
CfgLogger(p) ==
  /\ pc[p] = "cfg_logger"
  /\ logger' = loc[p].nextLogger
  /\ lazyCommits' = IF loc[p].lazy THEN lazyCommits + 1 ELSE lazyCommits
  /\ Goto(p, "cfg_closer")
  /\ UNCHANGED <<currentCloser, levelVar, lvVal, useColor, loggerMu, redVars,
                 sinks, loc, opsLeft, closeCount, supplied, installed,
                 content, epochs, quiet, complete,
                 added, maxStackBytes, rotVars>>

\* Mutant of CfgCloser: the previous sink is closed inside the critical section.
CfgCloserClosing(p) ==
  /\ pc[p] = "cfg_closer"
  /\ currentCloser' = loc[p].nextCloser
  /\ installed' = installed \cup ({loc[p].nextCloser} \ {0})
  /\ closeCount' = IF loc[p].prevCloser # 0
                     THEN [closeCount EXCEPT ![loc[p].prevCloser] = @ + 1]
                     ELSE closeCount
  /\ loc' = [loc EXCEPT ![p].prevCloser = 0]
  /\ Goto(p, "cfg_unlock")
  /\ UNCHANGED <<logger, levelVar, lvVal, useColor, loggerMu, redVars, sinks,
                 opsLeft, supplied, content, epochs, lazyCommits, quiet,
                 complete,
                 added, maxStackBytes, rotVars>>

\* currentCloser = nextCloser; slog.SetDefault(nextLogger) (src/logx.go 497-498).
CfgCloser(p) ==
  /\ pc[p] = "cfg_closer"
  /\ currentCloser' = loc[p].nextCloser
  /\ installed' = installed \cup ({loc[p].nextCloser} \ {0})
  /\ Goto(p, "cfg_unlock")
  /\ UNCHANGED <<logger, levelVar, lvVal, useColor, loggerMu, redVars, sinks,
                 loc, opsLeft, closeCount, supplied, content, epochs,
                 lazyCommits, quiet, complete,
                 added, maxStackBytes, rotVars>>

\* loggerMu.Unlock() (src/logx.go 499).
CfgUnlock(p) ==
  /\ pc[p] = "cfg_unlock"
  /\ loggerMu' = 0
  /\ Goto(p, "cfg_close")
  /\ UNCHANGED <<logger, currentCloser, levelVar, lvVal, useColor, redVars,
                 sinks, loc, opsLeft, histVars, quiet, complete,
                 added, maxStackBytes, rotVars>>

\* The sinks a Configure(cfg) that got file sink fw (0: none) was asked to
\* log to: stderr for the console or when there is no file sink.
Asked(cfg, fw) ==
  (IF cfg.Console \/ fw = 0 THEN {Stderr} ELSE {}) \cup ({fw} \ {0})

\* Close() on a sink, as the controller issues it.
CloseSink(s) ==
  closeCount' = IF s # 0 THEN [closeCount EXCEPT ![s] = @ + 1] ELSE closeCount

\* Mutant of CfgClose: Close goes to the sink just installed.
CfgCloseNext(p) ==
  /\ pc[p] = "cfg_close"
  /\ CloseSink(loc[p].nextCloser)
  /\ epochs' = Append(epochs, Asked(loc[p].cfg, loc[p].nextCloser))
  /\ Goto(p, loc[p].ret)
  /\ loc' = [loc EXCEPT ![p] = IF loc[p].ret = "idle" THEN Loc0
                                ELSE [@ EXCEPT !.prevCloser = 0]]
  /\ UNCHANGED <<ctlVars, redVars, sinks, opsLeft, supplied, installed,
                 content, lazyCommits, quiet, complete,
                 added, maxStackBytes, rotVars>>

\* if prevCloser != nil { prevCloser.Close() }; return err (src/logx.go 501-505).
CfgClose(p) ==
  /\ pc[p] = "cfg_close"
  /\ CloseSink(loc[p].prevCloser)
  /\ epochs' = Append(epochs, Asked(loc[p].cfg, loc[p].nextCloser))
  /\ Goto(p, loc[p].ret)
  /\ loc' = [loc EXCEPT ![p] = IF loc[p].ret = "idle" THEN Loc0
                                ELSE [@ EXCEPT !.prevCloser = 0]]
  /\ UNCHANGED <<ctlVars, redVars, sinks, opsLeft, supplied, installed,
                 content, lazyCommits, quiet, complete,
                 added, maxStackBytes, rotVars>>

\* --------------------------------------------------- ClearRedactedKeys
\* redactedKeysMu.Lock() (src/redaction.go 58).
ClrLock(p) ==
  /\ pc[p] = "clr_lock"
  /\ redactedKeysMu = 0
  /\ redactedKeysMu' = p
  /\ Goto(p, "clr_new")
  /\ UNCHANGED <<ctlVars, redactedKeys, redactedKeysSnapshot, maps, sinks, loc, opsLeft, histVars, quiet, complete,
                 added, maxStackBytes, rotVars>>

\* redactedKeys = map[string]struct{}{} (src/redaction.go 60).
ClrNew(p) ==
  /\ pc[p] = "clr_new"
  /\ maps' = Append(maps, {})
  /\ redactedKeys' = Len(maps) + 1
  /\ Goto(p, "clr_store")
  /\ UNCHANGED <<ctlVars, redactedKeysSnapshot, redactedKeysMu, sinks, loc, opsLeft, histVars, quiet, complete,
                 added, maxStackBytes, rotVars>>

\* Mutant of ClrStore: the empty set is not published.
ClrStoreUnpublished(p) ==
  /\ pc[p] = "clr_store"
  /\ redactedKeysMu' = 0
  /\ complete' = complete \cup {{}}
  /\ added' = NoneAdded
  /\ Goto(p, loc[p].ret)
  /\ loc' = [loc EXCEPT ![p] = IF loc[p].ret = "idle" THEN Loc0 ELSE @]
  /\ UNCHANGED <<ctlVars, redactedKeys, redactedKeysSnapshot, maps, sinks,
                 opsLeft, histVars, quiet, maxStackBytes, rotVars>>

\* redactedKeysSnapshot.Store(map[string]struct{}{}) and the deferred
\* Unlock (src/redaction.go 59-62).
ClrStore(p) ==
  /\ pc[p] = "clr_store"
  /\ maps' = Append(maps, {})
  /\ redactedKeysSnapshot' = Len(maps) + 1
  /\ redactedKeysMu' = 0
  /\ complete' = complete \cup {{}}
  /\ added' = NoneAdded
  /\ Goto(p, loc[p].ret)
  /\ loc' = [loc EXCEPT ![p] = IF loc[p].ret = "idle" THEN Loc0 ELSE @]
  /\ UNCHANGED <<ctlVars, redactedKeys, sinks, opsLeft, histVars, quiet,
                 maxStackBytes, rotVars>>

\* ---------------------------------------------------------------- Reset
StartReset(p) ==
  /\ Begin(p, "Reset", "rst_lock", [Loc0 EXCEPT !.op = "Reset"])
  /\ UNCHANGED <<ctlVars, redVars, sinks, histVars, complete,
                 added, maxStackBytes, rotVars>>

\* loggerMu.Lock(); prevCloser := currentCloser (src/logx.go 588-589).
RstLock(p) ==
  /\ pc[p] = "rst_lock"
  /\ loggerMu = 0
  /\ loggerMu' = p
  /\ loc' = [loc EXCEPT ![p].prevCloser = currentCloser]
  /\ quiet' = IF quiet.stage = "reset"
                THEN [quiet EXCEPT !.sink = currentCloser,
                                   !.cc = IF currentCloser # 0
                                            THEN closeCount[currentCloser] ELSE 0]
                ELSE quiet
  /\ Goto(p, "rst_logger")
  /\ UNCHANGED <<logger, currentCloser, levelVar, lvVal, useColor, redVars,
                 sinks, opsLeft, histVars, complete,
                 added, maxStackBytes, rotVars>>

\* logger = nil (src/logx.go 590).
RstLogger(p) ==
  /\ pc[p] = "rst_logger"
  /\ logger' = Nil
  /\ lazyCommits' = 0
  /\ Goto(p, "rst_closer")
  /\ UNCHANGED <<currentCloser, levelVar, lvVal, useColor, loggerMu, redVars,
                 sinks, loc, opsLeft, closeCount, supplied, installed,
                 content, epochs, quiet, complete,
                 added, maxStackBytes, rotVars>>

\* currentCloser = nil (src/logx.go 591).
RstCloser(p) ==
  /\ pc[p] = "rst_closer"
  /\ currentCloser' = 0
  /\ Goto(p, "rst_color")
  /\ UNCHANGED <<logger, levelVar, lvVal, useColor, loggerMu, redVars, sinks,
                 loc, opsLeft, histVars, quiet, complete,
                 added, maxStackBytes, rotVars>>

\* useColor = false (src/logx.go 592).
RstColor(p) ==
  /\ pc[p] = "rst_color"
  /\ useColor' = FALSE
  /\ Goto(p, "rst_level")
  /\ UNCHANGED <<logger, currentCloser, levelVar, lvVal, loggerMu, redVars,
                 sinks, loc, opsLeft, histVars, quiet, complete,
                 added, maxStackBytes, rotVars>>

\* levelVar = new(slog.LevelVar): a fresh LevelVar, whose zero value is Info
\* (src/logx.go 593).
RstLevel(p) ==
  /\ pc[p] = "rst_level"
  /\ lvVal' = Append(lvVal, LevelInfo)
  /\ levelVar' = Len(lvVal) + 1
  /\ Goto(p, "rst_unlock")
  /\ UNCHANGED <<logger, currentCloser, useColor, loggerMu, redVars, sinks,
                 loc, opsLeft, histVars, quiet, complete,
                 added, maxStackBytes, rotVars>>

\* Mutant of RstUnlock: Reset leaves the redacted keys alone.
RstUnlockNoClear(p) ==
  /\ pc[p] = "rst_unlock"
  /\ loggerMu' = 0
  /\ Goto(p, "rst_close")
  /\ UNCHANGED <<logger, currentCloser, levelVar, lvVal, useColor, redVars,
                 sinks, loc, opsLeft, histVars, quiet, complete,
                 added, maxStackBytes, rotVars>>

\* loggerMu.Unlock(), then the call of ClearRedactedKeys (src/logx.go 594-595).
RstUnlock(p) ==
  /\ pc[p] = "rst_unlock"
  /\ loggerMu' = 0
  /\ loc' = [loc EXCEPT ![p].ret = "rst_close"]
  /\ Goto(p, "clr_lock")
  /\ UNCHANGED <<logger, currentCloser, levelVar, lvVal, useColor, redVars,
                 sinks, opsLeft, histVars, quiet, complete,
                 added, maxStackBytes, rotVars>>

\* if prevCloser != nil { prevCloser.Close() } (src/logx.go 597-599).
RstClose(p) ==
  /\ pc[p] = "rst_close"
  /\ CloseSink(loc[p].prevCloser)
  /\ quiet' = IF quiet.stage = "reset"
                THEN [quiet EXCEPT !.stage = "resetdone",
                                   !.content = IF quiet.sink # 0
                                                 THEN content[quiet.sink] ELSE {}]
                ELSE quiet
  /\ epochs' = Append(epochs, {})
  /\ Goto(p, "idle")
  /\ loc' = [loc EXCEPT ![p] = Loc0]
  /\ UNCHANGED <<ctlVars, redVars, sinks, opsLeft, supplied, installed,
                 content, lazyCommits, complete,
                 added, maxStackBytes, rotVars>>

\* ------------------------------------------------------------ SetLogger
\* A caller starts SetLogger(l) with a logger of its own: one text handler
\* on the caller's buffer whose options hold the constant slog.LevelDebug,
\* with no redaction or stack handler around it, as the callers of SetLogger
\* build it (src/httpx/httpx_test.go 32-37). levelVar is unexported, so a
\* caller's handler cannot filter on it.
StartSetLogger(p) ==
  /\ Begin(p, "SetLogger", "sl_lock",
           [Loc0 EXCEPT !.op = "SetLogger",
                        !.nextLogger = [kind |-> "logger", h |-> <<ExtBuf>>,
                                        lv |-> 0, by |-> "caller"]])
  /\ UNCHANGED <<ctlVars, redVars, sinks, histVars, complete,
                 added, maxStackBytes, rotVars>>

\* loggerMu.Lock(); prevCloser := currentCloser (src/logx.go 605-606).
SlLock(p) ==
  /\ pc[p] = "sl_lock"
  /\ loggerMu = 0
  /\ loggerMu' = p
  /\ loc' = [loc EXCEPT ![p].prevCloser = currentCloser]
  /\ Goto(p, "sl_logger")
  /\ UNCHANGED <<logger, currentCloser, levelVar, lvVal, useColor, redVars,
                 sinks, opsLeft, histVars, quiet, complete,
                 added, maxStackBytes, rotVars>>

\* logger = l (src/logx.go 607).
SlLogger(p) ==
  /\ pc[p] = "sl_logger"
  /\ logger' = loc[p].nextLogger
  /\ Goto(p, "sl_closer")
  /\ UNCHANGED <<currentCloser, levelVar, lvVal, useColor, loggerMu, redVars,
                 sinks, loc, opsLeft, histVars, quiet, complete,
                 added, maxStackBytes, rotVars>>

\* currentCloser = nil; slog.SetDefault(l) (src/logx.go 608-609).
SlCloser(p) ==
  /\ pc[p] = "sl_closer"
  /\ currentCloser' = 0
  /\ Goto(p, "sl_unlock")
  /\ UNCHANGED <<logger, levelVar, lvVal, useColor, loggerMu, redVars, sinks,
                 loc, opsLeft, histVars, quiet, complete,
                 added, maxStackBytes, rotVars>>

\* loggerMu.Unlock() (src/logx.go 610).
SlUnlock(p) ==
  /\ pc[p] = "sl_unlock"
  /\ loggerMu' = 0
  /\ Goto(p, "sl_close")
  /\ UNCHANGED <<logger, currentCloser, levelVar, lvVal, useColor, redVars,
                 sinks, loc, opsLeft, histVars, quiet, complete,
                 added, maxStackBytes, rotVars>>

\* if prevCloser != nil { prevCloser.Close() } (src/logx.go 611-613).
SlClose(p) ==
  /\ pc[p] = "sl_close"
  /\ CloseSink(loc[p].prevCloser)
  /\ epochs' = Append(epochs, {ExtBuf})
  /\ Goto(p, "idle")
  /\ loc' = [loc EXCEPT ![p] = Loc0]
  /\ UNCHANGED <<ctlVars, redVars, sinks, opsLeft, supplied, installed,
                 content, lazyCommits, quiet, complete,
                 added, maxStackBytes, rotVars>>

\* ------------------------------------------------------------- SetLevel
\* levelVar.Set(level) (src/logx.go 617-619).
SetLevel(p) ==
  \E level \in {LevelDebug, LevelWarn} :
    /\ Begin(p, "SetLevel", "idle", Loc0)
    /\ lvVal' = [lvVal EXCEPT ![levelVar] = level]
    /\ UNCHANGED <<logger, currentCloser, levelVar, useColor, loggerMu,
                   redVars, sinks, histVars, complete,
                 added, maxStackBytes, rotVars>>

\* ------------------------------------------- Logger() and the log calls
\* A caller starts Debug/Info/Warn(msg): Logger().Info(msg) (src/logx.go 643-655).
StartLog(p) ==
  \E level \in {LevelDebug, LevelInfo} :
    /\ Begin(p, "Log", "log_read1", [Loc0 EXCEPT !.op = "Log", !.level = level])
    /\ UNCHANGED <<ctlVars, redVars, sinks, histVars, complete,
                 added, maxStackBytes, rotVars>>

\* loggerMu.RLock(); l := logger; loggerMu.RUnlock(); and the nil test that
\* sends the caller into Configure with the default Config (src/logx.go 625-633).
LogRead1(p) ==
  /\ pc[p] = "log_read1"
  /\ loggerMu = 0
  /\ IF logger = Nil
       THEN /\ loc' = [loc EXCEPT ![p].cfg = DefaultConfig, ![p].lazy = TRUE,
                                  ![p].ret = "log_read2"]
            /\ Goto(p, "cfg_build")
       ELSE /\ loc' = [loc EXCEPT ![p].l = logger, ![p].i = 1,
                                  ![p].tag = Len(epochs)]
            /\ Goto(p, "log_enabled")
  /\ UNCHANGED <<ctlVars, redVars, sinks, opsLeft, histVars, quiet,
                 complete,
                 added, maxStackBytes, rotVars>>

\* loggerMu.RLock(); l = logger; loggerMu.RUnlock() (src/logx.go 635-637).
LogRead2(p) ==
  /\ pc[p] = "log_read2"
  /\ loggerMu = 0
  /\ loc' = [loc EXCEPT ![p].l = logger, ![p].i = 1, ![p].tag = Len(epochs)]
  /\ Goto(p, "log_enabled")
  /\ UNCHANGED <<ctlVars, redVars, sinks, opsLeft, histVars, quiet,
                 complete,
                 added, maxStackBytes, rotVars>>

\* The handlers of a Configure-built logger filter on the LevelVar that
\* buildLogger put in their options (src/logx.go 509-512); the handler of a
\* caller's logger (lv = 0) filters on the constant slog.LevelDebug.
Enabled(l, level) ==
  level >= (IF l.lv = 0 THEN LevelDebug ELSE lvVal[l.lv])

\* What the return of a log call does to the record of a lone Reset.
QuietLogDone ==
  IF quiet.stage = "log" THEN [quiet EXCEPT !.stage = "logdone"] ELSE quiet

\* l.Info(msg) starts with the level test: a nil l panics; otherwise the
\* terminal handlers are asked in turn, each with one atomic load of its
\* level, until one is enabled; when none is, the call returns. An enabled
\* record goes to redactionHandler.Handle in a logger that Configure built
\* and straight to the handler in a caller's logger
\* (src/logx.go 643-660, 759-766; src/redaction.go 82-84).
LogEnabled(p) ==
  /\ pc[p] = "log_enabled"
  /\ IF loc[p].l = Nil
       THEN /\ Goto(p, "panic")
            /\ quiet' = IF quiet.stage = "log" THEN QuietNone ELSE quiet
            /\ UNCHANGED loc
       ELSE IF Enabled(loc[p].l, loc[p].level)
         THEN /\ Goto(p, IF loc[p].l.by = "caller" THEN "log_write"
                                                       ELSE "log_handle")
              /\ loc' = [loc EXCEPT ![p].i = 1]
              /\ UNCHANGED quiet
         ELSE IF loc[p].i < Len(loc[p].l.h)
           THEN /\ loc' = [loc EXCEPT ![p].i = loc[p].i + 1]
                /\ UNCHANGED <<pc, quiet>>
           ELSE /\ Goto(p, "idle")
                /\ loc' = [loc EXCEPT ![p] = Loc0]
                /\ quiet' = QuietLogDone
  /\ UNCHANGED <<ctlVars, redVars, sinks, opsLeft, histVars, complete,
                 added, maxStackBytes, rotVars>>

\* redactionHandler.Handle loads the published key set, once for the record
\* (src/redaction.go 86-90).
LogHandle(p) ==
  /\ pc[p] = "log_handle"
  /\ loc' = [loc EXCEPT ![p].snap = redactedKeysSnapshot, ![p].i = 1]
  /\ Goto(p, "log_write")
  /\ UNCHANGED <<ctlVars, redVars, sinks, opsLeft, histVars, quiet, complete,
                 added, maxStackBytes, rotVars>>

\* multiHandler.Handle hands the record to the terminal handlers one after
\* the other, no lock held between them; each one writes it to its sink
\* (src/logx.go 768-776).
LogWrite(p) ==
  /\ pc[p] = "log_write"
  /\ LET s == loc[p].l.h[loc[p].i]
     IN content' = [content EXCEPT ![s] = @ \cup {[tag |-> loc[p].tag,
                                                   level |-> loc[p].level]}]
  /\ IF loc[p].i < Len(loc[p].l.h)
       THEN /\ loc' = [loc EXCEPT ![p].i = loc[p].i + 1]
            /\ UNCHANGED <<pc, quiet>>
       ELSE /\ Goto(p, "idle")
            /\ loc' = [loc EXCEPT ![p] = Loc0]
            /\ quiet' = QuietLogDone
  /\ UNCHANGED <<ctlVars, redVars, sinks, opsLeft, closeCount, supplied,
                 installed, epochs, lazyCommits, complete,
                 added, maxStackBytes, rotVars>>

\* ----------------------------------- SetRedactedKeys / AddRedactedKeys
\* cloneKeySet (src/redaction.go 125-131): a new map with the keys of src.
cloneKeySet(src) == {k \in src : TRUE}

\* A caller starts SetRedactedKeys(keys...) (src/redaction.go 42).
StartSetRedactedKeys(p, args) ==
  /\ Begin(p, "SetRedactedKeys", "set_lock",
           [Loc0 EXCEPT !.op = "SetRedactedKeys", !.keys = args])
  /\ UNCHANGED <<ctlVars, redVars, sinks, histVars, complete,
                 added, maxStackBytes, rotVars>>

\* AddRedactedKeys(keys...) is SetRedactedKeys(keys...) (src/redaction.go 52-54).
StartAddRedactedKeys(p, args) ==
  /\ Begin(p, "AddRedactedKeys", "set_lock",
           [Loc0 EXCEPT !.op = "AddRedactedKeys", !.keys = args])
  /\ UNCHANGED <<ctlVars, redVars, sinks, histVars, complete,
                 added, maxStackBytes, rotVars>>

\* redactedKeysMu.Lock() (src/redaction.go 43); want records what the whole
\* call is to produce, mine the lower-cased keys it was given, and raced
\* that another call was waiting for the lock.
SetLock(p) ==
  /\ pc[p] = "set_lock"
  /\ redactedKeysMu = 0
  /\ redactedKeysMu' = p
  /\ loc' = [loc EXCEPT ![p].want = maps[redactedKeys] \cup
                                      {ToLower(k) : k \in Range(loc[p].keys)},
                        ![p].mine = {ToLower(k) : k \in Range(loc[p].keys)}]
  /\ added' = [added EXCEPT !.raced =
                 @ \/ \E q \in Procs \ {p} : pc[q] = "set_lock"]
  /\ Goto(p, "set_loop")
  /\ UNCHANGED <<ctlVars, redactedKeys, redactedKeysSnapshot, maps, sinks,
                 opsLeft, histVars, quiet, complete, maxStackBytes, rotVars>>

\* Mutant of SetAdd: a key replaces the set instead of joining it.
SetAddReplace(p) ==
  /\ pc[p] = "set_loop"
  /\ loc[p].keys # <<>>
  /\ maps' = [maps EXCEPT ![redactedKeys] = {ToLower(Head(loc[p].keys))}]
  /\ loc' = [loc EXCEPT ![p].keys = Tail(@)]
  /\ UNCHANGED <<ctlVars, redactedKeys, redactedKeysSnapshot, redactedKeysMu,
                 sinks, pc, opsLeft, histVars, quiet, complete,
                 added, maxStackBytes, rotVars>>

\* Mutant of SetAdd: the key is stored as it was given.
SetAddAsGiven(p) ==
  /\ pc[p] = "set_loop"
  /\ loc[p].keys # <<>>
  /\ maps' = [maps EXCEPT ![redactedKeys] = @ \cup {Head(loc[p].keys)}]
  /\ loc' = [loc EXCEPT ![p].keys = Tail(@)]
  /\ UNCHANGED <<ctlVars, redactedKeys, redactedKeysSnapshot, redactedKeysMu,
                 sinks, pc, opsLeft, histVars, quiet, complete,
                 added, maxStackBytes, rotVars>>

\* redactedKeys[strings.ToLower(k)] = struct{}{} (src/redaction.go 45-47).
SetAdd(p) ==
  /\ pc[p] = "set_loop"
  /\ loc[p].keys # <<>>
  /\ maps' = [maps EXCEPT ![redactedKeys] = @ \cup {ToLower(Head(loc[p].keys))}]
  /\ loc' = [loc EXCEPT ![p].keys = Tail(@)]
  /\ UNCHANGED <<ctlVars, redactedKeys, redactedKeysSnapshot, redactedKeysMu,
                 sinks, pc, opsLeft, histVars, quiet, complete,
                 added, maxStackBytes, rotVars>>

\* Mutant of SetStore: the live map is published without cloneKeySet.
SetStoreNoClone(p) ==
  /\ pc[p] = "set_loop"
  /\ loc[p].keys = <<>>
  /\ redactedKeysSnapshot' = redactedKeys
  /\ redactedKeysMu' = 0
  /\ complete' = complete \cup {loc[p].want}
  /\ added' = [added EXCEPT !.keys = @ \cup loc[p].mine]
  /\ Goto(p, "idle")
  /\ loc' = [loc EXCEPT ![p] = Loc0]
  /\ UNCHANGED <<ctlVars, redactedKeys, maps, sinks, opsLeft, histVars,
                 quiet, maxStackBytes, rotVars>>

\* redactedKeysSnapshot.Store(cloneKeySet(redactedKeys)) and the deferred
\* Unlock (src/redaction.go 44, 48).
SetStore(p) ==
  /\ pc[p] = "set_loop"
  /\ loc[p].keys = <<>>
  /\ maps' = Append(maps, cloneKeySet(maps[redactedKeys]))
  /\ redactedKeysSnapshot' = Len(maps) + 1
  /\ redactedKeysMu' = 0
  /\ complete' = complete \cup {loc[p].want}
  /\ added' = [added EXCEPT !.keys = @ \cup loc[p].mine]
  /\ Goto(p, "idle")
  /\ loc' = [loc EXCEPT ![p] = Loc0]
  /\ UNCHANGED <<ctlVars, redactedKeys, sinks, opsLeft, histVars, quiet,
                 maxStackBytes, rotVars>>

\* A caller starts ClearRedactedKeys() (src/redaction.go 57).
StartClearRedactedKeys(p) ==
  /\ Begin(p, "ClearRedactedKeys", "clr_lock",
           [Loc0 EXCEPT !.op = "ClearRedactedKeys"])
  /\ UNCHANGED <<ctlVars, redVars, sinks, histVars, complete,
                 added, maxStackBytes, rotVars>>

\* -------------------------------------------------------- handler chain
\* The key "stack" of the attribute that stackHandler adds.
StackKey == <<115, 116, 97, 99, 107>>

\* Lengths that debug.Stack() may return.
StackLens == {40, 70000}

Min(a, b) == IF a < b THEN a ELSE b

\* A slog.Record: NewRecord(time, level, msg, pc) with its attributes.
Record(hdr, attrs) ==
  [time |-> hdr.time, level |-> hdr.level, msg |-> hdr.msg, attrs |-> attrs]

\* A terminal handler, slog.NewTextHandler(w, opts) (src/logx.go 528, 562,
\* 569): enabled from opts.Level up, Handle returns the error of its writer
\* (0: nil), WithAttrs binds attributes that are written before a record's.
TextHandler(id, level, err) ==
  [kind |-> "text", id |-> id, level |-> level, err |-> err, bound |-> <<>>]

\* passthroughHandler (src/stack_test.go 41-46).
passthroughHandler == [kind |-> "passthrough"]

\* newMultiHandler (src/logx.go 755-757).
newMultiHandler(h) == [kind |-> "multi", handlers |-> h]

\* Mutant of newStackHandler: the handler is wrapped whatever the level.
newStackHandlerAlways(next, level) ==
  [kind |-> "stack", next |-> next, level |-> level]

\* newStackHandler for which only a level below Debug means no stack.
newStackHandlerBelowDebug(next, level) ==
  IF level < LevelDebug THEN next
  ELSE [kind |-> "stack", next |-> next, level |-> level]

\* newStackHandler (src/httpx/httpx_test.go 215-224).
newStackHandler(next, level) ==
  IF level = 0 THEN next
  ELSE [kind |-> "stack", next |-> next, level |-> level]

\* newRedactionHandler (src/redaction.go 78-80).
newRedactionHandler(next) == [kind |-> "redact", next |-> next]

\* The end of buildLogger (src/logx.go 572-582): one handler or a
\* multiHandler, inside the stack handler, inside the redaction handler.
ComposeHandler(handlers, stacktraceLevel) ==
  LET handler == IF Len(handlers) = 1 THEN handlers[1]
                 ELSE newMultiHandler(handlers)
  IN newRedactionHandler(newStackHandler(handler, stacktraceLevel))

RECURSIVE HandlerEnabled(_, _)
RECURSIVE multiHandlerEnabled(_, _, _)
RECURSIVE WithAttrs(_, _)
RECURSIVE Handle(_, _, _)
RECURSIVE multiHandlerHandle(_, _, _, _, _)

\* Mutant of multiHandlerEnabled: every child has to be enabled.
multiHandlerEnabledAll(handlers, i, level) ==
  IF i > Len(handlers) THEN TRUE
  ELSE IF ~HandlerEnabled(handlers[i], level) THEN FALSE
  ELSE multiHandlerEnabled(handlers, i + 1, level)

\* multiHandler.Enabled (src/logx.go 759-766): the loop from child i on.
multiHandlerEnabled(handlers, i, level) ==
  IF i > Len(handlers) THEN FALSE
  ELSE IF HandlerEnabled(handlers[i], level) THEN TRUE
  ELSE multiHandlerEnabled(handlers, i + 1, level)

\* h.Enabled(ctx, level): redactionHandler and stackHandler ask next
\* (src/redaction.go 82-84, src/httpx/httpx_test.go 226-228).
HandlerEnabled(h, level) ==
  CASE h.kind = "text" -> level >= h.level
    [] h.kind = "passthrough" -> TRUE
    [] h.kind = "multi" -> multiHandlerEnabled(h.handlers, 1, level)
    [] OTHER -> HandlerEnabled(h.next, level)

\* h.WithAttrs(attrs) (src/redaction.go 117-119, src/httpx/httpx_test.go
\* 246-248, src/logx.go 778-784, src/stack_test.go 45).
WithAttrs(h, attrs) ==
  CASE h.kind = "text" -> [h EXCEPT !.bound = @ \o attrs]
    [] h.kind = "passthrough" -> h
    [] h.kind = "multi" ->
         newMultiHandler([i \in DOMAIN h.handlers |->
                            WithAttrs(h.handlers[i], attrs)])
    [] h.kind = "stack" -> newStackHandler(WithAttrs(h.next, attrs), h.level)
    [] OTHER -> newRedactionHandler(WithAttrs(h.next, attrs))

\* Mutant of stackRecord: only a record above the level gets a stack.
stackRecordAbove(h, r, stack) ==
  IF r.level > h.level
    THEN [r EXCEPT !.attrs =
            Append(@, [key |-> StackKey, val |-> "trace",
                       len |-> Min(stack, maxStackBytes)])]
    ELSE r

\* The record that stackHandler.Handle passes on (src/httpx/httpx_test.go
\* 230-244): from h.level up, a clone of r with the attribute "stack", cut to
\* maxStackBytes; stack is the length of debug.Stack().
stackRecord(h, r, stack) ==
  IF r.level >= h.level
    THEN [r EXCEPT !.attrs =
            Append(@, [key |-> StackKey, val |-> "trace",
                       len |-> Min(stack, maxStackBytes)])]
    ELSE r

\* Mutant of multiHandlerHandle: the loop ends at the first child that fails.
multiHandlerHandleUntilError(handlers, i, r, stack, acc) ==
  IF i > Len(handlers) \/ acc.err # 0 THEN acc
  ELSE LET res == Handle(handlers[i], r, stack)
       IN multiHandlerHandle(handlers, i + 1, r, stack,
            [calls |-> acc.calls \o res.calls,
             err |-> IF res.err # 0 /\ acc.err = 0 THEN res.err ELSE acc.err])

\* multiHandler.Handle (src/logx.go 768-776): the loop from child i on; acc
\* holds the calls made so far and firstErr.
multiHandlerHandle(handlers, i, r, stack, acc) ==
  IF i > Len(handlers) THEN acc
  ELSE LET res == Handle(handlers[i], r, stack)
       IN multiHandlerHandle(handlers, i + 1, r, stack,
            [calls |-> acc.calls \o res.calls,
             err |-> IF res.err # 0 /\ acc.err = 0 THEN res.err ELSE acc.err])

\* h.Handle(ctx, r) below the redaction handler: the Handle calls that reach
\* the terminal handlers, in order, and the error returned.
Handle(h, r, stack) ==
  CASE h.kind = "text" ->
         [calls |-> <<[id |-> h.id, rec |-> [r EXCEPT !.attrs = h.bound \o @]]>>,
          err |-> h.err]
    [] h.kind = "passthrough" -> [calls |-> <<>>, err |-> 0]
    [] h.kind = "multi" ->
         multiHandlerHandle(h.handlers, 1, r, stack, [calls |-> <<>>, err |-> 0])
    [] OTHER -> Handle(h.next, stackRecord(h, r, stack), stack)

\* A log call reaches redactionHandler.Handle with record r (src/redaction.go 86).
StartHandle(p) ==
  \E r \in Records :
    /\ Begin(p, "Handle", "h_load",
             [Loc0 EXCEPT !.op = "Handle", !.rec = r,
                          !.h = newRedactionHandler(passthroughHandler)])
    /\ UNCHANGED <<ctlVars, redVars, sinks, histVars, complete,
                   added, maxStackBytes, rotVars>>

\* keys, _ := redactedKeysSnapshot.Load(); with no key the record is
\* forwarded as it is (src/redaction.go 87-90).  cleared records that no key
\* has been added since the set was last empty.
HLoad(p) ==
  /\ pc[p] = "h_load"
  /\ LET keys == redactedKeysSnapshot
         cleared == /\ added.keys = {}
                    /\ \A q \in Procs : pc[q] \notin {"set_lock", "set_loop"}
     IN IF Cardinality(maps[keys]) = 0
          THEN /\ loc' = [loc EXCEPT ![p].snap = keys, ![p].seen = maps[keys],
                                     ![p].cleared = cleared,
                                     ![p].out = loc[p].rec,
                                     ![p].fwd = Record(loc[p].hdr, loc[p].rec)]
               /\ Goto(p, "h_next")
          ELSE /\ loc' = [loc EXCEPT ![p].snap = keys, ![p].seen = maps[keys],
                                     ![p].cleared = cleared]
               /\ Goto(p, "h_attrs")
  /\ UNCHANGED <<ctlVars, redVars, sinks, opsLeft, histVars, quiet, complete,
                 added, maxStackBytes, rotVars>>

\* Mutant of HAttr: the placeholder is stacked on a value that already is
\* the placeholder.
HAttrStacking(p) ==
  /\ pc[p] = "h_attrs"
  /\ Len(loc[p].out) < Len(loc[p].rec)
  /\ LET a == loc[p].rec[Len(loc[p].out) + 1]
         ok == ToLower(a.key) \in maps[loc[p].snap]
         b == IF ok THEN [a EXCEPT !.val = IF @ = "REDACTED"
                                             THEN "REDACTED REDACTED"
                                             ELSE "REDACTED"]
              ELSE a
     IN loc' = [loc EXCEPT ![p].out = Append(@, b)]
  /\ UNCHANGED <<ctlVars, redVars, sinks, pc, opsLeft, histVars, quiet,
                 complete, added, maxStackBytes, rotVars>>

\* One call of the function passed to nr.Attrs (src/redaction.go 96-103).
HAttr(p) ==
  /\ pc[p] = "h_attrs"
  /\ Len(loc[p].out) < Len(loc[p].rec)
  /\ LET a == loc[p].rec[Len(loc[p].out) + 1]
         ok == ToLower(a.key) \in maps[loc[p].snap]
         b == IF ok THEN [a EXCEPT !.val = "REDACTED"] ELSE a
     IN loc' = [loc EXCEPT ![p].out = Append(@, b)]
  /\ UNCHANGED <<ctlVars, redVars, sinks, pc, opsLeft, histVars, quiet,
                 complete,
                 added, maxStackBytes, rotVars>>

\* Mutant of HBuild: the new record is stamped with the zero time.
HBuildNoTime(p) ==
  /\ pc[p] = "h_attrs"
  /\ Len(loc[p].out) = Len(loc[p].rec)
  /\ loc' = [loc EXCEPT ![p].fwd =
                Record([loc[p].hdr EXCEPT !.time = 0], loc[p].out)]
  /\ Goto(p, "h_next")
  /\ UNCHANGED <<ctlVars, redVars, sinks, opsLeft, histVars, quiet, complete,
                 added, maxStackBytes, rotVars>>

\* newRec := slog.NewRecord(nr.Time, nr.Level, nr.Message, nr.PC);
\* newRec.AddAttrs(attrs...) (src/redaction.go 105-112).
HBuild(p) ==
  /\ pc[p] = "h_attrs"
  /\ Len(loc[p].out) = Len(loc[p].rec)
  /\ loc' = [loc EXCEPT ![p].fwd = Record(loc[p].hdr, loc[p].out)]
  /\ Goto(p, "h_next")
  /\ UNCHANGED <<ctlVars, redVars, sinks, opsLeft, histVars, quiet, complete,
                 added, maxStackBytes, rotVars>>

\* h.next.Handle(ctx, newRec) (src/redaction.go 89, 114): a next that is a
\* redaction handler runs the steps above on the record it is given; any
\* other next hands it down to the terminal handlers.
HNext(p) ==
  /\ pc[p] = "h_next"
  /\ LET next == loc[p].h.next
     IN IF next.kind = "redact"
          THEN /\ loc' = [loc EXCEPT ![p].h = next,
                                     ![p].rec = loc[p].fwd.attrs,
                                     ![p].out = <<>>,
                                     ![p].passes = @ + 1,
                                     ![p].seen0 = loc[p].seen]
               /\ Goto(p, "h_load")
          ELSE /\ \E stack \in StackLens :
                    LET res == Handle(next, loc[p].fwd, stack)
                    IN loc' = [loc EXCEPT ![p].calls = res.calls,
                                          ![p].herr = res.err,
                                          ![p].passes = @ + 1]
               /\ Goto(p, "h_ret")
  /\ UNCHANGED <<ctlVars, redVars, sinks, opsLeft, histVars, quiet, complete,
                 added, maxStackBytes, rotVars>>

\* The return of Handle to its caller (src/redaction.go 89, 114).
HReturn(p) ==
  /\ pc[p] = "h_ret"
  /\ Goto(p, "idle")
  /\ loc' = [loc EXCEPT ![p] = Loc0]
  /\ UNCHANGED <<ctlVars, redVars, sinks, opsLeft, histVars, quiet, complete,
                 added, maxStackBytes, rotVars>>

\* ------------------------------------------- calls on a composed handler
\* Terminal handlers 1..k in the order they are given to newMultiHandler;
\* handler i is enabled from one of levels up and, if it fails, returns error i.
Children(levels, fails) ==
  UNION {{c \in [1..k -> {TextHandler(i, l, IF f THEN i ELSE 0) :
                            i \in 1..k, l \in levels, f \in fails}] :
            \A i \in 1..k : c[i].id = i} : k \in 0..MaxChildren}

\* Config.StacktraceLevel: unset, or a level.
StackLevels == {0, LevelDebug, LevelWarn}

\* Time, level and message of the records handed to a composed handler.
Headers == [time : {1, 2},
            level : {LevelDebug, LevelInfo, LevelWarn, LevelError},
            msg : {"m"}]

\* Their attributes, with keys "P" and "q".
ChainAttrs == SeqsUpTo([key : {<<80>>, <<113>>}, val : {"v"}], MaxAttrs)

\* Attributes bound with With(args...): none, or P=v.
BoundArgs == {<<>>, <<[key |-> <<80>>, val |-> "v"]>>}

\* Arguments of SetStackMaxBytes.
StackMaxArgs == {-1, 0, 50}

\* A caller logs record r on a logger whose handler buildLogger composed
\* (src/logx.go 572-582) over the given terminal handlers, derived with
\* With(bound...) (src/logx.go 742-744), and, if twice, wrapped once more by
\* newRedactionHandler: the call reaches redactionHandler.Handle.
StartHandleChain(p) ==
  /\ pc[p] = "idle"
  /\ \E handlers \in Children({LevelDebug}, BOOLEAN) \ {<<>>},
        stacktraceLevel \in StackLevels, twice \in BOOLEAN,
        bound \in BoundArgs, hdr \in Headers, attrs \in ChainAttrs :
    LET handler == IF Len(handlers) = 1 THEN handlers[1]
                   ELSE newMultiHandler(handlers)
        chain == ComposeHandler(handlers, stacktraceLevel)
        top == IF twice THEN newRedactionHandler(chain) ELSE chain
    IN /\ Begin(p, "Handle", "h_load",
                [Loc0 EXCEPT !.op = "Handle", !.rec = attrs, !.hdr = hdr,
                             !.h = WithAttrs(top, bound),
                             !.base = WithAttrs(handler, bound),
                             !.stacktraceLevel = stacktraceLevel,
                             !.bound = bound,
                             !.r0 = Record(hdr, attrs)])
       /\ UNCHANGED <<ctlVars, redVars, sinks, histVars, complete,
                      added, maxStackBytes, rotVars>>

\* SetStackMaxBytes(n) (src/httpx/httpx_test.go 208-213).
SetStackMaxBytes(p) ==
  \E n \in StackMaxArgs :
    /\ Begin(p, "SetStackMaxBytes", "idle", Loc0)
    /\ maxStackBytes' = IF n <= 0 THEN maxStackBytes ELSE n
    /\ UNCHANGED <<ctlVars, redVars, sinks, histVars, complete, added,
                   rotVars>>

\* A caller asks newMultiHandler(handlers...).Enabled(ctx, level)
\* (src/logx.go 759-766).
CallEnabled(p) ==
  /\ pc[p] = "idle"
  /\ \E handlers \in Children({LevelDebug, LevelWarn}, {FALSE}),
        level \in {LevelDebug, LevelInfo, LevelWarn} :
    /\ Begin(p, "Enabled", "en_ret",
             [Loc0 EXCEPT !.op = "Enabled", !.level = level,
                          !.h = newMultiHandler(handlers),
                          !.ok = HandlerEnabled(newMultiHandler(handlers),
                                                level)])
    /\ UNCHANGED <<ctlVars, redVars, sinks, histVars, complete,
                   added, maxStackBytes, rotVars>>

\* The return of Enabled to its caller.
EnabledReturn(p) ==
  /\ pc[p] = "en_ret"
  /\ Goto(p, "idle")
  /\ loc' = [loc EXCEPT ![p] = Loc0]
  /\ UNCHANGED <<ctlVars, redVars, sinks, opsLeft, histVars, quiet, complete,
                 added, maxStackBytes, rotVars>>

\* ------------------------------------------------------ ListRedactedKeys
StartListRedactedKeys(p) ==
  /\ Begin(p, "ListRedactedKeys", "ls_load",
           [Loc0 EXCEPT !.op = "ListRedactedKeys"])
  /\ UNCHANGED <<ctlVars, redVars, sinks, histVars, complete,
                 added, maxStackBytes, rotVars>>

\* keys, _ := redactedKeysSnapshot.Load() (src/redaction.go 66).
LsLoad(p) ==
  /\ pc[p] = "ls_load"
  /\ loc' = [loc EXCEPT ![p].snap = redactedKeysSnapshot,
                        ![p].seen = maps[redactedKeysSnapshot],
                        ![p].want = added.keys,
                        ![p].calm = \A q \in Procs : ~Mutating(q)]
  /\ Goto(p, "ls_range")
  /\ UNCHANGED <<ctlVars, redVars, sinks, opsLeft, histVars, quiet,
                 complete,
                 added, maxStackBytes, rotVars>>

\* One iteration of for k := range keys, in the order the map yields
\* (src/redaction.go 68-70).
LsAppend(p) ==
  /\ pc[p] = "ls_range"
  /\ \E k \in maps[loc[p].snap] \ Range(loc[p].out) :
       loc' = [loc EXCEPT ![p].out = Append(@, k)]
  /\ UNCHANGED <<ctlVars, redVars, sinks, pc, opsLeft, histVars, quiet,
                 complete,
                 added, maxStackBytes, rotVars>>

\* The end of the range loop (src/redaction.go 68-71).
LsDone(p) ==
  /\ pc[p] = "ls_range"
  /\ maps[loc[p].snap] \ Range(loc[p].out) = {}
  /\ Goto(p, "ls_ret")
  /\ UNCHANGED <<ctlVars, redVars, sinks, loc, opsLeft, histVars, quiet,
                 complete,
                 added, maxStackBytes, rotVars>>

\* return out (src/redaction.go 71).
LsReturn(p) ==
  /\ pc[p] = "ls_ret"
  /\ Goto(p, "idle")
  /\ loc' = [loc EXCEPT ![p] = Loc0]
  /\ UNCHANGED <<ctlVars, redVars, sinks, opsLeft, histVars, quiet,
                 complete,
                 added, maxStackBytes, rotVars>>

\* ------------------------------------------------------- specifications
\* The reconfiguration controller under concurrent callers.
Next ==
  \E p \in Procs :
    \/ StartConfigure(p) \/ BuildOpts(p) \/ BuildColor(p) \/ BuildFile(p)
    \/ CfgLock(p) \/ CfgSetLevel(p)
    \/ CfgLogger(p) \/ CfgCloser(p) \/ CfgUnlock(p) \/ CfgClose(p)
    \/ StartReset(p) \/ RstLock(p) \/ RstLogger(p) \/ RstCloser(p)
    \/ RstColor(p) \/ RstLevel(p) \/ RstUnlock(p) \/ RstClose(p)
    \/ ClrLock(p) \/ ClrNew(p) \/ ClrStore(p)
    \/ StartSetLogger(p) \/ SlLock(p) \/ SlLogger(p) \/ SlCloser(p)
    \/ SlUnlock(p) \/ SlClose(p)
    \/ StartLog(p) \/ LogRead1(p) \/ LogRead2(p)
    \/ LogEnabled(p) \/ LogHandle(p) \/ LogWrite(p)

Spec == Init /\ [][Next]_vars

\* One caller, one call at a time.
InitSeq == InitWith(MaxSeqOps)

NextSeq ==
  \/ StartConfigure(1) \/ BuildOpts(1) \/ BuildColor(1) \/ BuildFile(1)
  \/ CfgLock(1) \/ CfgSetLevel(1)
  \/ CfgLogger(1) \/ CfgCloser(1) \/ CfgUnlock(1) \/ CfgClose(1)
  \/ StartReset(1) \/ RstLock(1) \/ RstLogger(1) \/ RstCloser(1)
  \/ RstColor(1) \/ RstLevel(1) \/ RstUnlock(1) \/ RstClose(1)
  \/ ClrLock(1) \/ ClrNew(1) \/ ClrStore(1)
  \/ StartSetLogger(1) \/ SlLock(1) \/ SlLogger(1) \/ SlCloser(1)
  \/ SlUnlock(1) \/ SlClose(1)
  \/ SetLevel(1)
  \/ StartLog(1) \/ LogRead1(1) \/ LogRead2(1)
  \/ LogEnabled(1) \/ LogHandle(1) \/ LogWrite(1)
  \/ StartSetRedactedKeys(1, <<<<80>>>>) \/ SetLock(1) \/ SetAdd(1)
  \/ SetStore(1)

SpecSeq == InitSeq /\ [][NextSeq]_vars

\* The redacted-key set under concurrent writers and readers.
NextRed ==
  \E p \in Procs :
    \/ \E args \in KeyArgs : StartSetRedactedKeys(p, args)
    \/ \E args \in KeyArgs : StartAddRedactedKeys(p, args)
    \/ SetLock(p) \/ SetAdd(p) \/ SetStore(p)
    \/ StartClearRedactedKeys(p) \/ ClrLock(p) \/ ClrNew(p) \/ ClrStore(p)
    \/ StartHandle(p) \/ HLoad(p) \/ HAttr(p) \/ HBuild(p) \/ HNext(p)
    \/ HReturn(p)
    \/ StartListRedactedKeys(p) \/ LsLoad(p) \/ LsAppend(p) \/ LsDone(p)
    \/ LsReturn(p)

SpecRed == Init /\ [][NextRed]_vars

\* One caller of a composed handler chain and of the key set.
InitChain == InitWith(MaxChainOps)

NextChain ==
  \/ \E args \in KeyArgs : StartSetRedactedKeys(1, args)
  \/ SetLock(1) \/ SetAdd(1) \/ SetStore(1)
  \/ StartClearRedactedKeys(1) \/ ClrLock(1) \/ ClrNew(1) \/ ClrStore(1)
  \/ SetStackMaxBytes(1)
  \/ StartHandleChain(1) \/ HLoad(1) \/ HAttr(1) \/ HBuild(1) \/ HNext(1)
  \/ HReturn(1)
  \/ CallEnabled(1) \/ EnabledReturn(1)

SpecChain == InitChain /\ [][NextChain]_vars

\* ------------------------------------------------------------ fileRotator
\* The files of the log directory.  A file is the sequence of the chunks
\* appended to it: chunk [w, n] is the n bytes of Write call w, and w = 0
\* marks bytes that were in the file before the rotator was constructed.
\* The directory maps names to files: name 0 is r.path, and name ts > 0 is
\* the backup r.path + "." + ts.
RECURSIVE SumN(_)
SumN(chunks) ==
  IF chunks = <<>> THEN 0 ELSE Head(chunks).n + SumN(Tail(chunks))

\* info.Size() of a file.
Size(ino) == SumN(inodes[ino])

HasChunk(ino, w) == \E k \in DOMAIN inodes[ino] : inodes[ino][k].w = w

\* time.Now().Format("20060102T150405"): the clock counts half seconds and
\* the layout keeps whole seconds only.
TicksPerSecond == 2

Format(t) == t \div TicksPerSecond

\* os.OpenFile(r.path, O_CREATE|O_APPEND|O_WRONLY): the file of r.path,
\* created empty when the name is absent, and the new *os.File on it.
PathIno == IF 0 \in DOMAIN dir THEN dir[0] ELSE Len(inodes) + 1

InodesAfterOpen == IF 0 \in DOMAIN dir THEN inodes ELSE Append(inodes, <<>>)

DirAfterOpen ==
  [x \in DOMAIN dir \cup {0} |-> IF x = 0 THEN PathIno ELSE dir[x]]

HandlesAfterOpen == Append(handles, [ino |-> PathIno, open |-> TRUE])

\* f.Close() of the *os.File f (nothing for the nil file).
HandlesAfterClose(f) ==
  IF f = 0 THEN handles ELSE [handles EXCEPT ![f].open = FALSE]

\* os.Rename(r.path, rotated): the file of r.path gets the name ts, and a
\* backup that had this name is replaced.
DirAfterRename(ts) ==
  [x \in (DOMAIN dir \ {0}) \cup {ts} |-> IF x = ts THEN dir[0] ELSE dir[x]]

\* rotate lines 94-106: of the names matching base.* in sorted order all
\* but the last k are removed.
Backups(d) == DOMAIN d \ {0}

\* The k names that sort first.
Oldest(names, k) == {x \in names : Cardinality({y \in names : y < x}) < k}

Newest(names, k) == {x \in names : Cardinality({y \in names : y > x}) < k}

\* Pruning that removes nothing.
DirAfterPruneNone(d, k) == d

DirAfterPrune(d, k) ==
  IF k > 0 /\ Cardinality(Backups(d)) > k
    THEN [x \in {0} \cup Newest(Backups(d), k) |-> d[x]]
    ELSE d

\* f.Write(p) for a payload of n bytes: the bytes written.
Written(f, n) == IF f # 0 /\ handles[f].open THEN n ELSE 0

\* The Write calls that have taken the lock so far.
Turns == Cardinality({i \in DOMAIN writes : writes[i].turn > 0})

\* A Write call that has just been made.  The history of a call keeps its
\* turn at the lock, r.size as it found it, whether it entered rotate, the
\* name and the file of the backup it made, the file rotate opened, the file
\* the payload went to and the file of r.path then, and what Write returned.
NewWrite(n) ==
  [n |-> n, turn |-> 0, size0 |-> -1, attempt |-> FALSE, ts |-> 0,
   rotated |-> FALSE, old |-> 0, new |-> 0, ino |-> 0, active |-> 0,
   wrote |-> 0, err |-> FALSE, done |-> FALSE]

\* Whether a call of the file system succeeds: any call may fail, and on the
\* temporary directory of a test none does.
FsOutcomes == BOOLEAN

FsWorks == {TRUE}

\* Arguments of newFileRotator and lengths of the payloads handed to Write.
RotMaxSizes == {0, 4}

RotBackups == {0, 1, 2}

ExistingSizes == {0, 3}

PayloadLens == {1, 2, 5}

\* newFileRotator that starts r.size at 0 whatever the file holds.
newFileRotatorFromZero(maxSize, backups, existing) ==
  /\ inodes = <<IF existing = 0 THEN <<>> ELSE <<[w |-> 0, n |-> existing]>> >>
  /\ dir = [x \in {0} |-> 1]
  /\ handles = <<[ino |-> 1, open |-> TRUE]>>
  /\ rotator = [f |-> 1, size |-> 0, maxSize |-> maxSize,
                backups |-> backups, mu |-> 0]
  /\ clock = TicksPerSecond
  /\ writes = <<>>

\* newFileRotator(path, maxSize, backups) on a directory where the file of
\* path holds existing bytes (none: the file is created).
newFileRotator(maxSize, backups, existing) ==
  /\ inodes = <<IF existing = 0 THEN <<>> ELSE <<[w |-> 0, n |-> existing]>> >>
  /\ dir = [x \in {0} |-> 1]
  /\ handles = <<[ino |-> 1, open |-> TRUE]>>
  /\ rotator = [f |-> 1, size |-> existing, maxSize |-> maxSize,
                backups |-> backups, mu |-> 0]
  /\ clock = TicksPerSecond
  /\ writes = <<>>

\* ---------------------------------------------------------- Write
StartWrite(p) ==
  /\ pc[p] = "idle"
  /\ \E n \in PayloadLens :
       /\ Begin(p, "Write", "w_lock",
                [Loc0 EXCEPT !.op = "Write", !.n = n,
                             !.wid = Len(writes) + 1])
       /\ writes' = Append(writes, NewWrite(n))
  /\ UNCHANGED <<ctlVars, redVars, sinks, histVars, complete, added,
                 maxStackBytes, rotator, handles, inodes, dir, clock>>

\* Write with the rotation decided by size + len(p) >= maxSize.
WLockAtLimit(p) ==
  /\ pc[p] = "w_lock"
  /\ rotator.mu = 0
  /\ rotator' = [rotator EXCEPT !.mu = p]
  /\ writes' = [writes EXCEPT ![loc[p].wid].size0 = rotator.size,
                              ![loc[p].wid].turn = Turns + 1]
  /\ IF rotator.maxSize > 0 /\ rotator.size + loc[p].n >= rotator.maxSize
       THEN Goto(p, "rot_close")
       ELSE Goto(p, "w_write")
  /\ UNCHANGED <<ctlVars, redVars, sinks, loc, opsLeft, histVars, quiet,
                 complete, added, maxStackBytes, handles, inodes, dir,
                 clock>>

\* Write that does not wait for r.mu.
WLockNoMutex(p) ==
  /\ pc[p] = "w_lock"
  /\ rotator' = [rotator EXCEPT !.mu = p]
  /\ writes' = [writes EXCEPT ![loc[p].wid].size0 = rotator.size,
                              ![loc[p].wid].turn = Turns + 1]
  /\ IF rotator.maxSize > 0 /\ rotator.size + loc[p].n > rotator.maxSize
       THEN Goto(p, "rot_close")
       ELSE Goto(p, "w_write")
  /\ UNCHANGED <<ctlVars, redVars, sinks, loc, opsLeft, histVars, quiet,
                 complete, added, maxStackBytes, handles, inodes, dir,
                 clock>>

\* Write lines 43-46: r.mu.Lock() and the test that decides on a rotation.
WLock(p) ==
  /\ pc[p] = "w_lock"
  /\ rotator.mu = 0
  /\ rotator' = [rotator EXCEPT !.mu = p]
  /\ writes' = [writes EXCEPT ![loc[p].wid].size0 = rotator.size,
                              ![loc[p].wid].turn = Turns + 1]
  /\ IF rotator.maxSize > 0 /\ rotator.size + loc[p].n > rotator.maxSize
       THEN Goto(p, "rot_close")
       ELSE Goto(p, "w_write")
  /\ UNCHANGED <<ctlVars, redVars, sinks, loc, opsLeft, histVars, quiet,
                 complete, added, maxStackBytes, handles, inodes, dir,
                 clock>>

\* rotate lines 69-71: the current file is closed.
RotateClose(p) ==
  /\ pc[p] = "rot_close"
  /\ handles' = HandlesAfterClose(rotator.f)
  /\ writes' = [writes EXCEPT ![loc[p].wid].attempt = TRUE]
  /\ Goto(p, "rot_rename")
  /\ UNCHANGED <<ctlVars, redVars, sinks, loc, opsLeft, histVars, quiet,
                 complete, added, maxStackBytes, rotator, inodes, dir,
                 clock>>

\* rotate lines 73-75: time.Now() is read, any time after its last reading
\* and up to latest, and os.Rename is called, which fails when r.path names
\* no file and otherwise ends in one of the outcomes of the file system.
RotateRenameIn(p, outcomes, latest) ==
  /\ pc[p] = "rot_rename"
  /\ \E t \in clock..latest,
        ok \in (IF 0 \in DOMAIN dir THEN outcomes ELSE {FALSE}) :
       /\ clock' = t
       /\ IF ok
            THEN /\ dir' = DirAfterRename(Format(t))
                 /\ writes' = [writes EXCEPT ![loc[p].wid].old = dir[0],
                                             ![loc[p].wid].ts = Format(t)]
                 /\ Goto(p, "rot_open")
            ELSE /\ UNCHANGED <<dir, writes>>
                 /\ Goto(p, "rot_reopen")
  /\ UNCHANGED <<ctlVars, redVars, sinks, loc, opsLeft, histVars, quiet,
                 complete, added, maxStackBytes, rotator, handles, inodes>>

\* The rename on a file system that may fail any call.
RotateRename(p) == RotateRenameIn(p, FsOutcomes, MaxClock)

\* rotate's fall-back whose caller returns the error of the rename.
RotateReopenReturning(p) ==
  /\ pc[p] = "rot_reopen"
  /\ \E ok \in BOOLEAN :
       IF ok
         THEN /\ handles' = HandlesAfterOpen
              /\ inodes' = InodesAfterOpen
              /\ dir' = DirAfterOpen
              /\ rotator' = [rotator EXCEPT !.f = Len(handles) + 1,
                                            !.size = SumN(InodesAfterOpen[PathIno]),
                                            !.mu = 0]
         ELSE /\ rotator' = [rotator EXCEPT !.mu = 0]
              /\ UNCHANGED <<handles, inodes, dir>>
  /\ writes' = [writes EXCEPT ![loc[p].wid].err = TRUE,
                              ![loc[p].wid].done = TRUE]
  /\ Goto(p, "w_ret")
  /\ UNCHANGED <<ctlVars, redVars, sinks, loc, opsLeft, histVars, quiet,
                 complete, added, maxStackBytes, clock>>

\* rotate's fall-back that restarts r.size at 0, as after a rotation.
RotateReopenSizeZero(p) ==
  /\ pc[p] = "rot_reopen"
  /\ \E ok \in BOOLEAN :
       IF ok
         THEN /\ handles' = HandlesAfterOpen
              /\ inodes' = InodesAfterOpen
              /\ dir' = DirAfterOpen
              /\ rotator' = [rotator EXCEPT !.f = Len(handles) + 1,
                                            !.size = 0]
         ELSE UNCHANGED <<handles, inodes, dir, rotator>>
  /\ Goto(p, "w_write")
  /\ UNCHANGED <<ctlVars, redVars, sinks, loc, opsLeft, histVars, quiet,
                 complete, added, maxStackBytes, clock, writes>>

\* rotate lines 77-84: after a failed rename the existing file is reopened
\* and r.size is read from it; a failed open leaves r.f as it was.
RotateReopen(p) ==
  /\ pc[p] = "rot_reopen"
  /\ \E ok \in BOOLEAN :
       IF ok
         THEN /\ handles' = HandlesAfterOpen
              /\ inodes' = InodesAfterOpen
              /\ dir' = DirAfterOpen
              /\ rotator' = [rotator EXCEPT !.f = Len(handles) + 1,
                                            !.size = SumN(InodesAfterOpen[PathIno])]
         ELSE UNCHANGED <<handles, inodes, dir, rotator>>
  /\ Goto(p, "w_write")
  /\ UNCHANGED <<ctlVars, redVars, sinks, loc, opsLeft, histVars, quiet,
                 complete, added, maxStackBytes, clock, writes>>

\* rotate lines 87-108: after the rename a new file is opened at r.path,
\* r.size restarts at 0 and the oldest backups are removed; a failed open
\* returns with r.f still the closed file.
RotateOpenIn(p, outcomes) ==
  /\ pc[p] = "rot_open"
  /\ \E ok \in outcomes :
       IF ok
         THEN /\ handles' = HandlesAfterOpen
              /\ inodes' = InodesAfterOpen
              /\ dir' = DirAfterPrune(DirAfterOpen, rotator.backups)
              /\ rotator' = [rotator EXCEPT !.f = Len(handles) + 1,
                                            !.size = 0]
              /\ writes' = [writes EXCEPT ![loc[p].wid].rotated = TRUE,
                                          ![loc[p].wid].new = PathIno]
         ELSE UNCHANGED <<handles, inodes, dir, rotator, writes>>
  /\ Goto(p, "w_write")
  /\ UNCHANGED <<ctlVars, redVars, sinks, loc, opsLeft, histVars, quiet,
                 complete, added, maxStackBytes, clock>>

\* The open on a file system that may fail any call.
RotateOpen(p) == RotateOpenIn(p, FsOutcomes)

\* Write that adds len(p) to r.size whatever was written.
WWriteCountsPayload(p) ==
  /\ pc[p] = "w_write"
  /\ LET f == rotator.f
         n == Written(f, loc[p].n)
         i == loc[p].wid
     IN /\ inodes' = IF n > 0
                       THEN [inodes EXCEPT ![handles[f].ino] =
                                             Append(@, [w |-> i, n |-> n])]
                       ELSE inodes
        /\ rotator' = [rotator EXCEPT !.size = @ + loc[p].n, !.mu = 0]
        /\ writes' = [writes EXCEPT
                        ![i].ino = IF n > 0 THEN handles[f].ino ELSE 0,
                        ![i].active = IF 0 \in DOMAIN dir THEN dir[0] ELSE 0,
                        ![i].wrote = n,
                        ![i].err = (n < loc[p].n),
                        ![i].done = TRUE]
  /\ Goto(p, "w_ret")
  /\ UNCHANGED <<ctlVars, redVars, sinks, loc, opsLeft, histVars, quiet,
                 complete, added, maxStackBytes, handles, dir, clock>>

\* Write lines 52-54: the payload goes to r.f, r.size grows by the bytes
\* written, and the deferred Unlock runs.
WWrite(p) ==
  /\ pc[p] = "w_write"
  /\ LET f == rotator.f
         n == Written(f, loc[p].n)
         i == loc[p].wid
     IN /\ inodes' = IF n > 0
                       THEN [inodes EXCEPT ![handles[f].ino] =
                                             Append(@, [w |-> i, n |-> n])]
                       ELSE inodes
        /\ rotator' = [rotator EXCEPT !.size = @ + n, !.mu = 0]
        /\ writes' = [writes EXCEPT
                        ![i].ino = IF n > 0 THEN handles[f].ino ELSE 0,
                        ![i].active = IF 0 \in DOMAIN dir THEN dir[0] ELSE 0,
                        ![i].wrote = n,
                        ![i].err = (n < loc[p].n),
                        ![i].done = TRUE]
  /\ Goto(p, "w_ret")
  /\ UNCHANGED <<ctlVars, redVars, sinks, loc, opsLeft, histVars, quiet,
                 complete, added, maxStackBytes, handles, dir, clock>>

\* The return of Write to its caller.
WReturn(p) ==
  /\ pc[p] = "w_ret"
  /\ Goto(p, "idle")
  /\ loc' = [loc EXCEPT ![p] = Loc0]
  /\ UNCHANGED <<ctlVars, redVars, sinks, opsLeft, histVars, quiet, complete,
                 added, maxStackBytes, rotVars>>

\* ---------------------------------------------------------- Close
StartRotatorClose(p) ==
  /\ Begin(p, "Close", "c_lock", [Loc0 EXCEPT !.op = "Close"])
  /\ UNCHANGED <<ctlVars, redVars, sinks, histVars, complete, added,
                 maxStackBytes, rotVars>>

\* Close lines 58-59: r.mu.Lock().
CLock(p) ==
  /\ pc[p] = "c_lock"
  /\ rotator.mu = 0
  /\ rotator' = [rotator EXCEPT !.mu = p]
  /\ Goto(p, "c_close")
  /\ UNCHANGED <<ctlVars, redVars, sinks, loc, opsLeft, histVars, quiet,
                 complete, added, maxStackBytes, handles, inodes, dir,
                 clock, writes>>

\* Close that closes r.f and keeps it.
RotatorCloseKeepsHandle(p) ==
  /\ pc[p] = "c_close"
  /\ handles' = HandlesAfterClose(rotator.f)
  /\ rotator' = [rotator EXCEPT !.mu = 0]
  /\ loc' = [loc EXCEPT ![p].wasNil = (rotator.f = 0),
                        ![p].err = (rotator.f # 0 /\ ~handles[rotator.f].open)]
  /\ Goto(p, "c_ret")
  /\ UNCHANGED <<ctlVars, redVars, sinks, opsLeft, histVars, quiet, complete,
                 added, maxStackBytes, inodes, dir, clock, writes>>

\* Close lines 60-65: a non-nil r.f is closed and forgotten; the error is
\* that of closing a file that is closed already.  The deferred Unlock runs.
RotatorClose(p) ==
  /\ pc[p] = "c_close"
  /\ handles' = HandlesAfterClose(rotator.f)
  /\ rotator' = [rotator EXCEPT !.f = 0, !.mu = 0]
  /\ loc' = [loc EXCEPT ![p].wasNil = (rotator.f = 0),
                        ![p].err = (rotator.f # 0 /\ ~handles[rotator.f].open)]
  /\ Goto(p, "c_ret")
  /\ UNCHANGED <<ctlVars, redVars, sinks, opsLeft, histVars, quiet, complete,
                 added, maxStackBytes, inodes, dir, clock, writes>>

\* The return of Close to its caller.
CReturn(p) ==
  /\ pc[p] = "c_ret"
  /\ Goto(p, "idle")
  /\ loc' = [loc EXCEPT ![p] = Loc0]
  /\ UNCHANGED <<ctlVars, redVars, sinks, opsLeft, histVars, quiet, complete,
                 added, maxStackBytes, rotVars>>

\* Goroutines that share one fileRotator.
InitRot ==
  /\ InitPackage(MaxRotOps)
  /\ \E maxSize \in RotMaxSizes, backups \in RotBackups,
        existing \in ExistingSizes :
       newFileRotator(maxSize, backups, existing)

NextRot ==
  \E p \in Procs :
       \/ StartWrite(p) \/ WLock(p) \/ RotateClose(p) \/ RotateRename(p)
       \/ RotateReopen(p) \/ RotateOpen(p) \/ WWrite(p) \/ WReturn(p)
       \/ StartRotatorClose(p) \/ CLock(p) \/ RotatorClose(p) \/ CReturn(p)

SpecRot == InitRot /\ [][NextRot]_vars

\* ------------------------------------- TestFileRotator_RotatesAndKeepsBackups
\* newFileRotator(path, 100, 2) in a new directory, ten Writes of 30 bytes,
\* a Write of 200 bytes, and the two Close calls of the test.
TestMaxSize == 100

TestBackups == 2

TestChunks == 10

TestChunk == 30

TestLast == 200

StartTestWrite(p) ==
  /\ pc[p] = "idle"
  /\ Len(writes) < TestChunks + 1
  /\ LET n == IF Len(writes) < TestChunks THEN TestChunk ELSE TestLast
     IN /\ Begin(p, "Write", "w_lock",
                 [Loc0 EXCEPT !.op = "Write", !.n = n,
                              !.wid = Len(writes) + 1])
        /\ writes' = Append(writes, NewWrite(n))
  /\ UNCHANGED <<ctlVars, redVars, sinks, histVars, complete, added,
                 maxStackBytes, rotator, handles, inodes, dir, clock>>

StartTestClose(p) ==
  /\ Len(writes) = TestChunks + 1
  /\ StartRotatorClose(p)

InitRotTest ==
  /\ InitPackage(TestChunks + 3)
  /\ newFileRotator(TestMaxSize, TestBackups, 0)

NextRotTest ==
  \/ StartTestWrite(1) \/ WLock(1) \/ RotateClose(1)
  \/ RotateRenameIn(1, FsWorks, MaxTestClock) \/ RotateOpenIn(1, FsWorks)
  \/ WWrite(1) \/ WReturn(1)
  \/ StartTestClose(1) \/ CLock(1) \/ RotatorClose(1) \/ CReturn(1)

SpecRotTest == InitRotTest /\ [][NextRotTest]_vars

\* --------------------------------------------- a directory that has backups
\* newFileRotator on a path whose directory holds backups of an earlier run
\* of the program, named by seconds that have passed, and the Writes of one
\* goroutine on it.
InitPrune ==
  /\ InitPackage(MaxPruneOps)
  /\ \E backups \in RotBackups, existing \in ExistingSizes,
        old \in SUBSET {1, 2} :
       /\ inodes = <<IF existing = 0 THEN <<>>
                                     ELSE <<[w |-> 0, n |-> existing]>> >>
                     \o [i \in 1..Cardinality(old) |-> <<[w |-> 0, n |-> 1]>>]
       /\ dir = [x \in {0} \cup old |->
                   1 + Cardinality({y \in old : y <= x})]
       /\ handles = <<[ino |-> 1, open |-> TRUE]>>
       /\ rotator = [f |-> 1, size |-> existing, maxSize |-> 4,
                     backups |-> backups, mu |-> 0]
       /\ clock = 2 * TicksPerSecond
       /\ writes = <<>>

NextPrune ==
  \/ StartWrite(1) \/ WLock(1) \/ RotateClose(1) \/ RotateRename(1)
  \/ RotateReopen(1) \/ RotateOpen(1) \/ WWrite(1) \/ WReturn(1)

SpecPrune == InitPrune /\ [][NextPrune]_vars

\* ------------------------------------------- a file that is already large
\* newFileRotator on a path whose file may hold more than maxSize bytes, and
\* the Write and Close calls of one goroutine on it.
InitLarge ==
  /\ InitPackage(MaxLargeOps)
  /\ \E maxSize \in RotMaxSizes \ {0}, backups \in RotBackups,
        existing \in ExistingSizes \cup {6} :
       newFileRotator(maxSize, backups, existing)

NextLarge ==
  \/ StartWrite(1) \/ WLock(1) \/ RotateClose(1) \/ RotateRename(1)
  \/ RotateReopen(1) \/ RotateOpen(1) \/ WWrite(1) \/ WReturn(1)
  \/ StartRotatorClose(1) \/ CLock(1) \/ RotatorClose(1) \/ CReturn(1)

SpecLarge == InitLarge /\ [][NextLarge]_vars

\* ------------------------------------------------------------ SanitizeURL
\* A *url.URL is nil or has a base (scheme, host and path) and a RawQuery,
\* which is a sequence of pieces between "&".  A piece has a key, a value
\* and ok, which is FALSE for a piece that url.ParseQuery rejects (it holds
\* a ";" or a bad escape).  Keys and values are made of letters, which
\* QueryUnescape and QueryEscape leave as they are.
NilURL == [nil |-> TRUE, base |-> "", rawQuery |-> <<>>]

\* The string "".
EmptyString == [base |-> "", query |-> <<>>]

\* "apikey", "password", "token", "key"
SensitiveParams ==
  { <<97, 112, 105, 107, 101, 121>>,
    <<112, 97, 115, 115, 119, 111, 114, 100>>,
    <<116, 111, 107, 101, 110>>,
    <<107, 101, 121>> }

\* sort.Strings order of two keys.
RECURSIVE LexLess(_, _)
LexLess(a, b) ==
  IF a = <<>> THEN b # <<>>
  ELSE IF b = <<>> THEN FALSE
  ELSE IF a[1] # b[1] THEN a[1] < b[1]
  ELSE LexLess(Tail(a), Tail(b))

\* The values that url.ParseQuery collects for key k, in their order.
RECURSIVE ValuesOf(_, _)
ValuesOf(raw, k) ==
  IF raw = <<>> THEN <<>>
  ELSE (IF Head(raw).ok /\ Head(raw).key = k THEN <<Head(raw).val>> ELSE <<>>)
         \o ValuesOf(Tail(raw), k)

\* u.Query(): the url.Values of the pieces that parse; the others are
\* dropped without an error.
Query(raw) ==
  [k \in {raw[i].key : i \in {j \in DOMAIN raw : raw[j].ok}} |->
     ValuesOf(raw, k)]

ValuePairs(k, vals) == [i \in DOMAIN vals |-> [key |-> k, val |-> vals[i]]]

\* Values.Encode(): the keys in sorted order, each with its values.
RECURSIVE Encode(_)
Encode(q) ==
  IF DOMAIN q = {} THEN <<>>
  ELSE LET k == CHOOSE x \in DOMAIN q :
                  \A y \in DOMAIN q \ {x} : LexLess(x, y)
       IN ValuePairs(k, q[k]) \o Encode([y \in DOMAIN q \ {k} |-> q[y]])

\* SanitizeURL whose switch is on the key as written.
SanitizeURLCaseSensitive(u) ==
  IF u.nil THEN EmptyString
  ELSE [base |-> u.base,
        query |-> Encode([k \in DOMAIN Query(u.rawQuery) |->
                            IF k \in SensitiveParams
                              THEN <<"REDACTED">>
                              ELSE Query(u.rawQuery)[k]])]

\* SanitizeURL lines 12-30: q.Set(k, "REDACTED") for every key whose
\* lower-cased form is one of the four names, then the clone with the
\* re-encoded query as a string.
SanitizeURL(u) ==
  IF u.nil THEN EmptyString
  ELSE [base |-> u.base,
        query |-> Encode([k \in DOMAIN Query(u.rawQuery) |->
                            IF ToLower(k) \in SensitiveParams
                              THEN <<"REDACTED">>
                              ELSE Query(u.rawQuery)[k]])]

\* Parameter names "key", "KEY", "token", "keys" and "p", of which "p" is
\* also a key that SetRedactedKeys is called with.
ParamNames ==
  { <<107, 101, 121>>, <<75, 69, 89>>, <<116, 111, 107, 101, 110>>,
    <<107, 101, 121, 115>>, <<112>> }

URLs ==
  {NilURL} \cup
    [nil : {FALSE}, base : {"https://fw/api"},
     rawQuery : SeqsUpTo([key : ParamNames, val : {"a", "b"}, ok : BOOLEAN],
                         MaxParams)]

CallSanitizeURL(p) ==
  /\ pc[p] = "idle"
  /\ \E u \in URLs :
       Begin(p, "SanitizeURL", "url_ret",
             [Loc0 EXCEPT !.op = "SanitizeURL", !.u = u,
                          !.s = SanitizeURL(u)])
  /\ UNCHANGED <<ctlVars, redVars, sinks, histVars, complete, added,
                 maxStackBytes, rotVars>>

\* The return of SanitizeURL to its caller.
SanitizeReturn(p) ==
  /\ pc[p] = "url_ret"
  /\ Goto(p, "idle")
  /\ loc' = [loc EXCEPT ![p] = Loc0]
  /\ UNCHANGED <<ctlVars, redVars, sinks, opsLeft, histVars, quiet, complete,
                 added, maxStackBytes, rotVars>>

\* One caller of the key set and of SanitizeURL.
InitURL == InitWith(MaxURLOps)

NextURL ==
  \/ \E args \in KeyArgs : StartSetRedactedKeys(1, args)
  \/ SetLock(1) \/ SetAdd(1) \/ SetStore(1)
  \/ StartClearRedactedKeys(1) \/ ClrLock(1) \/ ClrNew(1) \/ ClrStore(1)
  \/ CallSanitizeURL(1) \/ SanitizeReturn(1)

SpecURL == InitURL /\ [][NextURL]_vars

\* ================================================================ claims

\* C1: a sink handed to Configure once and installed as currentCloser is
\* closed by the controller at most once, only after the swap that took it
\* out of currentCloser, and exactly once as soon as the call that replaced
\* it has issued its Close.
CloseOwed(s) == \E p \in Procs : loc[p].prevCloser = s

C1_ReplacedSinkClosedOnce ==
  \A s \in DOMAIN sinks :
    supplied[s] <= 1 =>
      /\ closeCount[s] <= 1
      /\ (closeCount[s] = 1 => currentCloser # s)
      /\ (s \in installed /\ currentCloser # s /\ ~CloseOwed(s)
            => closeCount[s] = 1)

C1_Witness ==
  \E s \in DOMAIN sinks :
    /\ supplied[s] = 1 /\ s \in installed /\ closeCount[s] = 1
    /\ currentCloser # 0 /\ currentCloser # s

\* C2: a record of a log call that read the logger after a Configure (or
\* Reset, or SetLogger) returned, and before the next one did, is in a sink
\* only if that call was asked to log to this sink.
C2_LogsReachOnlyTheConfiguredSinks ==
  \A s \in DOMAIN content :
    \A r \in content[s] : r.tag > 0 /\ s \in epochs[r.tag]

C2_Witness ==
  \E s1, s2 \in DOMAIN sinks :
    /\ s1 # s2
    /\ \E r1 \in content[s1], r2 \in content[s2] : r1.tag < r2.tag

\* C3: a Configure whose FilePath cannot be opened has, when its commit is
\* done, an error to return and has installed a logger that writes to stderr,
\* with currentCloser nil.
OpenFails(cfg) == cfg.FileWriter = 0 /\ cfg.FilePath = BadPath

C3_FailedOpenFallsBackToStderr ==
  \A p \in Procs :
    pc[p] = "cfg_unlock" /\ OpenFails(loc[p].cfg) =>
      /\ loc[p].err
      /\ logger # Nil
      /\ logger.h # <<>>
      /\ logger.h[Len(logger.h)] = Stderr
      /\ currentCloser = 0

C3_Witness ==
  \E p \in Procs :
    /\ pc[p] = "cfg_unlock" /\ OpenFails(loc[p].cfg)
    /\ ~loc[p].cfg.Console /\ loc[p].cfg.FileMaxSizeBytes > 0
    /\ logger = loc[p].nextLogger

\* C4: between two moments at which the logger is nil, the callers of
\* Logger() commit at most one default configuration.
C4_OneDefaultConfiguration == lazyCommits <= 1

\* C5: the commit of the default configuration of Logger() replaces no
\* logger that an explicit Configure installed, and has no sink to close.
C5_LazyDefaultReplacesNoConfigure ==
  [][\A p \in Procs :
       pc[p] = "cfg_logger" /\ loc[p].lazy /\ pc'[p] = "cfg_closer"
         => /\ logger = Nil \/ logger.by # "Configure"
            /\ loc[p].prevCloser = 0]_vars

\* C6: when a Reset that ran alone has returned, the logger and currentCloser
\* are nil, Reset has closed the sink it owned exactly once (the only Close
\* of a sink handed over once), the key set is empty and the level is Info;
\* the next log call installs the default logger and leaves the old sink's
\* content as it was.
C6_ResetTearsDown ==
  /\ quiet.stage = "resetdone" =>
       /\ logger = Nil
       /\ currentCloser = 0
       /\ maps[redactedKeys] = {}
       /\ maps[redactedKeysSnapshot] = {}
       /\ lvVal[levelVar] = LevelInfo
       /\ (quiet.sink # 0 =>
             /\ closeCount[quiet.sink] = quiet.cc + 1
             /\ (supplied[quiet.sink] = 1 => closeCount[quiet.sink] = 1))
  /\ quiet.stage = "logdone" =>
       /\ logger # Nil
       /\ logger.h = <<Stderr>>
       /\ lvVal[logger.lv] = LevelInfo
       /\ currentCloser = 0
       /\ (quiet.sink # 0 => content[quiet.sink] = quiet.content)

C6_Witness ==
  /\ quiet.stage = "logdone"
  /\ quiet.sink # 0
  /\ quiet.content # {}
  /\ closeCount[quiet.sink] = 1
  /\ content[Stderr] # {}

\* C7: whenever loggerMu is free, currentCloser is nil or a sink the
\* installed logger writes to.
C7_CloserBelongsToLogger ==
  loggerMu = 0 =>
    \/ currentCloser = 0
    \/ logger # Nil /\ currentCloser \in Range(logger.h)

C7_Witness ==
  /\ loggerMu = 0
  /\ currentCloser # 0
  /\ \E s \in DOMAIN sinks : s # currentCloser /\ s \in installed

\* C8: a step that opens or closes a sink is never taken by the goroutine
\* that holds loggerMu.
C8_NoSinkIOUnderLock ==
  [][closeCount' # closeCount \/ sinks' # sinks
       => \A p \in Procs : pc'[p] # pc[p] => loggerMu # p /\ loggerMu' # p]_vars

C8_Witness ==
  \E s \in DOMAIN sinks, p \in Procs :
    /\ sinks[s] \in {"file", "rotator"}
    /\ closeCount[s] = 1
    /\ loggerMu = p

\* C9: the build phase of Configure leaves every package-level variable as
\* it was.
C9_BuildChangesNoGlobal ==
  [][\A p \in Procs :
       pc[p] \in {"cfg_build", "cfg_color", "cfg_file"} /\ pc'[p] # pc[p]
         => UNCHANGED <<logger, currentCloser, levelVar, lvVal, useColor,
                        redactedKeys, redactedKeysSnapshot, maps>>]_vars

\* C10: the key set a Handle or ListRedactedKeys call works on is the
\* result of one whole mutation call (or the initial empty set) and stays as
\* it was loaded until the call returns; what the call returns is computed
\* from that one set.
Redacted(rec, keys) ==
  [i \in DOMAIN rec |->
     IF ToLower(rec[i].key) \in keys THEN [rec[i] EXCEPT !.val = "REDACTED"]
     ELSE rec[i]]

C10_ReadersSeeOneCompleteSet ==
  \A p \in Procs :
    /\ pc[p] \in {"h_attrs", "h_next", "ls_range", "ls_ret"} =>
         /\ maps[loc[p].snap] \in complete
         /\ maps[loc[p].snap] = loc[p].seen
    /\ pc[p] = "h_next" => loc[p].out = Redacted(loc[p].rec, loc[p].seen)
    /\ pc[p] = "ls_ret" =>
         /\ Range(loc[p].out) = loc[p].seen
         /\ Len(loc[p].out) = Cardinality(loc[p].seen)

C10_Witness ==
  \E p, q \in Procs :
    /\ pc[p] = "h_attrs" /\ loc[p].seen # {} /\ Len(loc[p].out) >= 1
    /\ pc[q] = "set_loop"
    /\ maps[redactedKeys] \notin complete

\* C11: a ListRedactedKeys call that loads the key set while no Set, Add or
\* Clear call is in flight returns exactly the lower-cased keys of all the
\* Set/Add calls that have returned since the set was last empty, whether or
\* not those calls ran concurrently, and each key once.
C11_NoKeyUpdateLost ==
  \A p \in Procs :
    pc[p] = "ls_ret" /\ loc[p].calm =>
      /\ Range(loc[p].out) = loc[p].want
      /\ Len(loc[p].out) = Cardinality(loc[p].want)

C11_Witness ==
  \E p \in Procs :
    /\ pc[p] = "ls_ret" /\ loc[p].calm
    /\ added.raced
    /\ Cardinality(loc[p].want) = 2
    /\ Range(loc[p].out) = loc[p].want

\* C12: the record that a redactionHandler.Handle passes to next has the
\* time, level and message of the record it was given and the same attribute
\* keys in the same order; the value of an attribute is "REDACTED" exactly
\* when its lower-cased key is in the key set the call loaded, and is the
\* given value otherwise; with an empty key set it is the given record.
C12_RedactedRecordForwarded ==
  \A p \in Procs :
    pc[p] = "h_next" =>
      LET r == Record(loc[p].hdr, loc[p].rec)
          f == loc[p].fwd
      IN /\ f.time = r.time /\ f.level = r.level /\ f.msg = r.msg
         /\ Len(f.attrs) = Len(r.attrs)
         /\ \A i \in DOMAIN r.attrs :
              /\ f.attrs[i].key = r.attrs[i].key
              /\ f.attrs[i].val = "REDACTED"
                   <=> ToLower(r.attrs[i].key) \in loc[p].seen
              /\ ToLower(r.attrs[i].key) \notin loc[p].seen
                   => f.attrs[i] = r.attrs[i]
         /\ loc[p].seen = {} => f = r

C12_Witness ==
  \E p \in Procs :
    /\ pc[p] = "h_next"
    /\ loc[p].passes = 0
    /\ loc[p].hdr.time = 2
    /\ loc[p].seen = {<<112>>}
    /\ loc[p].rec = <<[key |-> <<113>>, val |-> "v"], [key |-> <<80>>, val |-> "v"]>>
    /\ loc[p].fwd.attrs = <<[key |-> <<113>>, val |-> "v"],
                            [key |-> <<80>>, val |-> "REDACTED"]>>

\* C13: every attribute that a terminal handler receives through the
\* composed chain, and whose lower-cased key is in the key set, has the value
\* "REDACTED", also when it was bound with With on a derived logger.
C13_EveryAttributeRedacted ==
  \A p \in Procs :
    pc[p] = "h_ret" =>
      \A i \in DOMAIN loc[p].calls :
        \A j \in DOMAIN loc[p].calls[i].rec.attrs :
          LET a == loc[p].calls[i].rec.attrs[j]
          IN ToLower(a.key) \in loc[p].seen => a.val = "REDACTED"

\* C14: a record that has passed a redaction handler passes a second one,
\* which loads the same key set, unchanged; and a SetRedactedKeys call whose
\* keys, in whatever letter case, were all set by earlier calls leaves the
\* key set as those calls left it.
C14_RedactionIdempotent ==
  \A p \in Procs :
    /\ pc[p] = "h_next" /\ loc[p].passes = 1 /\ loc[p].seen = loc[p].seen0
         => loc[p].fwd = Record(loc[p].hdr, loc[p].rec)
    /\ pc[p] = "set_loop" /\ loc[p].keys = <<>>
         /\ loc[p].mine \subseteq added.keys
         => /\ maps[redactedKeys] = added.keys
            /\ maps[redactedKeysSnapshot] = added.keys

C14_Witness ==
  \E p \in Procs :
    /\ pc[p] = "h_next" /\ loc[p].passes = 1
    /\ loc[p].seen = loc[p].seen0 /\ loc[p].seen # {}
    /\ \E i \in DOMAIN loc[p].rec :
         /\ loc[p].rec[i].val = "REDACTED"
         /\ loc[p].r0.attrs[i].val = "v"
    /\ loc[p].fwd.attrs = loc[p].rec

\* C15: a Handle call that loads the key set after ClearRedactedKeys has
\* returned, with no key added since, passes on the record it was given, with
\* every attribute value as it was.
C15_ClearedKeysPassThrough ==
  \A p \in Procs :
    pc[p] = "h_next" /\ loc[p].cleared =>
      /\ loc[p].out = loc[p].rec
      /\ loc[p].fwd = Record(loc[p].hdr, loc[p].rec)

C15_Witness ==
  \E p \in Procs :
    /\ pc[p] = "h_next" /\ loc[p].cleared
    /\ \E old \in complete, i \in DOMAIN loc[p].rec :
         /\ ToLower(loc[p].rec[i].key) \in old
         /\ loc[p].out[i].val = "v"

\* C16: multiHandler.Handle calls every child once, in the order of
\* construction, each with the record it was given, whether or not earlier
\* children failed, and returns the error of the first child that failed,
\* nil if none did.
C16_EveryChildHandlesOnce ==
  \A p \in Procs :
    pc[p] = "h_ret" /\ loc[p].base.kind = "multi" =>
      LET hs == loc[p].base.handlers
          failed == {i \in DOMAIN hs : hs[i].err # 0}
      IN /\ Len(loc[p].calls) = Len(hs)
         /\ \A i \in DOMAIN hs :
              /\ loc[p].calls[i].id = hs[i].id
              /\ loc[p].calls[i].rec = loc[p].calls[1].rec
         /\ IF failed = {} THEN loc[p].herr = 0
            ELSE \E i \in failed :
                   /\ \A j \in failed : i <= j
                   /\ loc[p].herr = hs[i].err

C16_Witness ==
  \E p \in Procs :
    /\ pc[p] = "h_ret" /\ loc[p].base.kind = "multi"
    /\ loc[p].base.handlers[1].err # 0
    /\ loc[p].base.handlers[2].err = 0
    /\ Len(loc[p].calls) = 2
    /\ loc[p].calls[2].id = 2
    /\ loc[p].herr = loc[p].base.handlers[1].err

\* C17: multiHandler.Enabled(level) is true exactly when some child is
\* enabled for the level.
C17_EnabledIsTheOr ==
  \A p \in Procs :
    pc[p] = "en_ret" =>
      (loc[p].ok <=> \E i \in DOMAIN loc[p].h.handlers :
                       loc[p].level >= loc[p].h.handlers[i].level)

C17_Witness ==
  \E p \in Procs :
    /\ pc[p] = "en_ret"
    /\ Len(loc[p].h.handlers) = 2
    /\ loc[p].level < loc[p].h.handlers[1].level
    /\ loc[p].level >= loc[p].h.handlers[2].level
    /\ loc[p].ok

\* C18: with the stack level unset (0), the handler under the redaction
\* handler is the handler that was given to newStackHandler, with no wrapper,
\* and a record is handled as that handler handles it.
C18_UnsetStackLevelAddsNoWrapper ==
  \A p \in Procs :
    /\ pc[p] \in {"h_load", "h_attrs", "h_next", "h_ret"}
         /\ loc[p].stacktraceLevel = 0 /\ loc[p].h.next.kind # "redact"
         => loc[p].h.next = loc[p].base
    /\ pc[p] = "h_ret" /\ loc[p].stacktraceLevel = 0
         => \A stack \in StackLens :
              Handle(loc[p].base, loc[p].fwd, stack) =
                [calls |-> loc[p].calls, err |-> loc[p].herr]

C18_Witness ==
  \E p \in Procs :
    /\ pc[p] = "h_ret" /\ loc[p].stacktraceLevel = 0
    /\ loc[p].hdr.level = LevelWarn
    /\ loc[p].base.kind = "text"
    /\ Len(loc[p].calls) = 1
    /\ loc[p].calls[1].rec = loc[p].fwd

\* C19: under a stack handler with a level T other than 0, a record of level
\* T or more reaches every terminal handler with one attribute more, the
\* last, whose key is "stack" and whose length is at most maxStackBytes, and
\* the record the stack handler was given has no such attribute; a record
\* below T reaches the terminal handlers with no attribute added.
StackAttrs(attrs) == {i \in DOMAIN attrs : attrs[i].key = StackKey}

C19_StackAttachedFromLevelUp ==
  \A p \in Procs :
    pc[p] = "h_ret" /\ loc[p].stacktraceLevel # 0 =>
      \A i \in DOMAIN loc[p].calls :
        LET got == loc[p].calls[i].rec.attrs
            given == loc[p].bound \o loc[p].fwd.attrs
        IN /\ StackAttrs(loc[p].fwd.attrs) = {}
           /\ IF loc[p].hdr.level >= loc[p].stacktraceLevel
                THEN /\ Len(got) = Len(given) + 1
                     /\ SubSeq(got, 1, Len(given)) = given
                     /\ StackAttrs(got) = {Len(got)}
                     /\ got[Len(got)].len <= maxStackBytes
                     /\ got[Len(got)].len <= 64 * 1024
                ELSE got = given

C19_Witness ==
  \E p \in Procs :
    /\ pc[p] = "h_ret" /\ loc[p].stacktraceLevel = LevelWarn
    /\ loc[p].hdr.level = LevelWarn
    /\ maxStackBytes = 50
    /\ Len(loc[p].calls) = 2
    /\ LET got == loc[p].calls[2].rec.attrs
       IN got[Len(got)].key = StackKey /\ got[Len(got)].len = 50

\* C20: fileRotator.Write attempts a rotation if and only if maxSize > 0 and
\* size + len(p) > maxSize, and rotates before it writes: while the rotation
\* of a Write runs its payload is in no file, after a successful rotation the
\* payload is in the file that the rotation opened at the active path and
\* never in the file that it renamed to a backup; with maxSize = 0 no
\* rotation is attempted and no backup exists.
Due(w) == rotator.maxSize > 0 /\ w.size0 + w.n > rotator.maxSize

C20_RotationBeforeWrite ==
  /\ \A i \in DOMAIN writes :
       LET w == writes[i]
       IN /\ w.attempt => Due(w)
          /\ w.done => (w.attempt <=> Due(w))
          /\ ~w.done => \A ino \in DOMAIN inodes : ~HasChunk(ino, i)
          /\ w.rotated => ~HasChunk(w.old, i)
          /\ w.rotated /\ w.done =>
               /\ w.wrote = w.n
               /\ w.ino = w.new /\ w.ino = w.active /\ w.ino # w.old
               /\ HasChunk(w.ino, i)
  /\ rotator.maxSize = 0 =>
       /\ \A i \in DOMAIN writes : ~writes[i].attempt
       /\ Backups(dir) = {}

C20_Witness ==
  \E i \in DOMAIN writes :
    LET w == writes[i]
    IN /\ w.done /\ w.rotated
       /\ w.old \in {dir[x] : x \in Backups(dir)}
       /\ inodes[w.old] # <<>>
       /\ 0 \in DOMAIN dir /\ dir[0] = w.new
       /\ HasChunk(dir[0], i)

\* No goroutine is between the lock of Write and its write: every rotation
\* that was started has run to its end.
Settled ==
  \A p \in Procs :
    pc[p] \notin {"rot_close", "rot_rename", "rot_reopen", "rot_open",
                  "w_write"}

\* rotate has returned nil whenever it was called.
NoRotationFailed ==
  \A i \in DOMAIN writes : writes[i].attempt => writes[i].rotated

\* C21: for a rotator with backups > 0, whenever no Write is
\* between its lock and its write, at most backups files match path.*.
C21_BackupsCapped ==
  rotator.backups > 0 /\ Settled =>
    Cardinality(Backups(dir)) <= rotator.backups

\* The backups in the order of their names, then the file of r.path: what a
\* reader of the log directory gets, as a sequence of chunks.
MinOf(S) == CHOOSE x \in S : \A y \in S : x <= y

RECURSIVE BackupChunks(_)
BackupChunks(names) ==
  IF names = {} THEN <<>>
  ELSE inodes[dir[MinOf(names)]] \o BackupChunks(names \ {MinOf(names)})

OnDisk ==
  BackupChunks(Backups(dir)) \o
    (IF 0 \in DOMAIN dir THEN inodes[dir[0]] ELSE <<>>)

IsPayload(c) == c.w # 0

\* The payloads that Write calls have written, in the order of the calls'
\* turns at the lock.
RECURSIVE PayloadsFrom(_)
PayloadsFrom(t) ==
  IF t > Turns THEN <<>>
  ELSE LET i == CHOOSE j \in DOMAIN writes : writes[j].turn = t
       IN (IF writes[i].wrote > 0
             THEN <<[w |-> i, n |-> writes[i].wrote]>>
             ELSE <<>>) \o PayloadsFrom(t + 1)

\* C22: with no backup pruned (backups = 0) and no rotation failed, whenever
\* no Write is between its lock and its write, the backups in chronological
\* order followed by the active file hold exactly the written payloads, each
\* once and in write order, whatever the times of the rotations.
C22_BackupsAndActiveHoldEveryPayload ==
  rotator.backups = 0 /\ Settled /\ NoRotationFailed =>
    SelectSeq(OnDisk, IsPayload) = PayloadsFrom(1)

\* C23: a Close call on a rotator that holds a file closes that file's
\* handle, once, and leaves r.f nil; a Close call on a rotator that is closed
\* already (r.f is nil: an earlier Close was its last change) returns nil and
\* changes neither the rotator nor a handle nor a file.
CloseStep(p) == pc[p] = "c_close" /\ pc'[p] = "c_ret"

C23_CloseOnceThenNoOp ==
  [][\A p \in Procs :
       CloseStep(p) =>
         /\ rotator'.f = 0
         /\ inodes' = inodes /\ dir' = dir
         /\ IF rotator.f = 0
              THEN /\ handles' = handles
                   /\ rotator' = [rotator EXCEPT !.mu = 0]
                   /\ ~loc'[p].err
              ELSE /\ handles' = [handles EXCEPT ![rotator.f].open = FALSE]
                   /\ rotator' = [rotator EXCEPT !.f = 0, !.mu = 0]
                   /\ loc'[p].err = ~handles[rotator.f].open]_vars

\* A second Close has returned nil: the first one closed the only handle
\* there is.
C23_Witness ==
  \E p \in Procs :
    /\ pc[p] = "c_ret" /\ loc[p].wasNil /\ ~loc[p].err
    /\ rotator.f = 0
    /\ Len(handles) = 1 /\ ~handles[1].open

\* C24: a rotation that fails ends in the write and not in a return (the
\* call has produced no result when rotate comes back), and what Write
\* returns is what writing the payload to r.f gives at that moment: all the
\* bytes and no error when r.f is an open file, which then holds them, and
\* no byte and an error when r.f is nil or closed.
C24_RotationErrorNeverReturned ==
  [][\A p \in Procs :
       LET i == loc[p].wid
           f == rotator.f
       IN /\ pc[p] \in {"rot_reopen", "rot_open"} /\ pc'[p] # pc[p] =>
               pc'[p] = "w_write" /\ ~writes'[i].done
          /\ pc[p] = "w_write" /\ pc'[p] # pc[p] =>
               /\ pc'[p] = "w_ret" /\ writes'[i].done
               /\ IF f # 0 /\ handles[f].open
                    THEN /\ writes'[i].wrote = loc[p].n /\ ~writes'[i].err
                         /\ inodes'[handles[f].ino] =
                              Append(inodes[handles[f].ino],
                                     [w |-> i, n |-> loc[p].n])
                    ELSE /\ writes'[i].wrote = 0 /\ writes'[i].err
                         /\ inodes' = inodes]_vars

\* A Write whose rename failed has returned all its bytes and no error, and
\* one whose reopen failed has returned the error of its write.
C24_Witness ==
  \E i, j \in DOMAIN writes :
    /\ writes[i].done /\ writes[i].attempt /\ ~writes[i].rotated
    /\ writes[i].wrote = writes[i].n /\ ~writes[i].err
    /\ writes[j].done /\ writes[j].attempt /\ ~writes[j].rotated
    /\ writes[j].wrote = 0 /\ writes[j].err

\* The goroutines between r.mu.Lock() and the deferred r.mu.Unlock() of
\* Write or Close.
InRotator == {p \in Procs : pc[p] \in {"rot_close", "rot_rename", "rot_reopen",
                                        "rot_open", "w_write", "c_close"}}

\* The turn of the Write call that wrote chunk c.
TurnOf(c) == IF c.w = 0 THEN 0 ELSE writes[c.w].turn

Ascending(chunks) ==
  \A k \in 1..(Len(chunks) - 1) : TurnOf(chunks[k]) < TurnOf(chunks[k + 1])

\* C25: at most one goroutine is between the lock and the unlock of Write or
\* Close, and it holds r.mu; a step that changes the rotator, a handle, a
\* file or the directory is a step of the holder of r.mu; every payload
\* written is one chunk of one file, and the chunks of every file, and of the
\* backups in chronological order followed by the active file, are in the
\* order of the turns at the lock.
C25_WritesSerialized ==
  /\ [](/\ Cardinality(InRotator) <= 1
        /\ \A p \in InRotator : rotator.mu = p
        /\ \A i \in DOMAIN writes :
             writes[i].done /\ writes[i].wrote > 0 =>
               /\ writes[i].wrote = writes[i].n
               /\ Cardinality({ino \in DOMAIN inodes : HasChunk(ino, i)}) = 1
               /\ \A ino \in DOMAIN inodes :
                    Cardinality({k \in DOMAIN inodes[ino] :
                                   inodes[ino][k].w = i}) <= 1
        /\ \A ino \in DOMAIN inodes : Ascending(inodes[ino])
        /\ Ascending(OnDisk))
  /\ [][rotator' # rotator \/ handles' # handles \/ inodes' # inodes
          \/ dir' # dir =>
            \E p \in Procs :
              /\ pc'[p] # pc[p]
              /\ rotator.mu = p \/ rotator'.mu = p]_vars

\* Two Write calls that overlapped, the one that was called later taking the
\* lock first, with both payloads in one file.
C25_Witness ==
  \E i, j \in DOMAIN writes, ino \in DOMAIN inodes :
    /\ i < j /\ writes[j].turn < writes[i].turn
    /\ writes[i].done /\ writes[j].done
    /\ HasChunk(ino, i) /\ HasChunk(ino, j)

\* C26: whenever r.mu is free and no rotation has failed, r.path names a
\* file and r.size is its length.
C26_SizeCounterIsFileLength ==
  rotator.mu = 0 /\ NoRotationFailed =>
    0 \in DOMAIN dir /\ rotator.size = Size(dir[0])

\* The counter after a Write that wrote nothing (the rotator was closed) and
\* a Write that rotated and wrote: it is the length of the new file.
C26_Witness ==
  /\ rotator.mu = 0 /\ NoRotationFailed
  /\ \E i, j \in DOMAIN writes :
       /\ writes[i].done /\ writes[i].err /\ writes[i].wrote = 0
       /\ writes[j].done /\ writes[j].rotated /\ writes[j].wrote > 0
       /\ writes[i].turn < writes[j].turn
  /\ 0 \in DOMAIN dir
  /\ rotator.size = Size(dir[0]) /\ rotator.size > 0

\* C27: a fresh rotator with maxSize = 100 and backups = 2 on a file system
\* that works: when the ten Writes of 30 bytes have returned at least two of
\* them have rotated; whenever no Write is between its lock and its write at
\* most 3 backups exist; and when the Write of 200 bytes has returned at most
\* 2 backups exist and r.path names a file.
TestWritesDone(k) == Len(writes) >= k /\ writes[k].done

C27_TestScenario ==
  /\ TestWritesDone(TestChunks) =>
       Cardinality({i \in 1..TestChunks : writes[i].rotated}) >= 2
  /\ Settled => Cardinality(Backups(dir)) <= TestBackups + 1
  /\ TestWritesDone(TestChunks + 1) =>
       /\ Cardinality(Backups(dir)) <= TestBackups
       /\ 0 \in DOMAIN dir

\* The scenario has run to its end with rotations in three different
\* seconds at least: two backups are left and the 200 bytes are in the
\* active file.
C27_Witness ==
  /\ TestWritesDone(TestChunks + 1)
  /\ Cardinality({writes[i].ts : i \in {j \in DOMAIN writes : writes[j].rotated}}) >= 3
  /\ Cardinality(Backups(dir)) = TestBackups
  /\ 0 \in DOMAIN dir
  /\ inodes[dir[0]] = <<[w |-> TestChunks + 1, n |-> TestLast]>>

\* The parameters of a raw query: the pieces that url.ParseQuery accepts.
Params(raw) == SelectSeq(raw, LAMBDA piece : piece.ok)

KeysOf(pairs) == {pairs[i].key : i \in DOMAIN pairs}

RECURSIVE ValsOf(_, _)
ValsOf(pairs, k) ==
  IF pairs = <<>> THEN <<>>
  ELSE (IF Head(pairs).key = k THEN <<Head(pairs).val>> ELSE <<>>)
         \o ValsOf(Tail(pairs), k)

\* C28: SanitizeURL of nil is ""; of a URL it is the URL with the same base
\* and the same parameter names, where a name whose lower-cased form is one
\* of apikey, password, token, key has the one value REDACTED and every other
\* name has the values it had, in their order; and this whatever the
\* redacted-key set holds.
C28_SanitizeURLRedactsFixedNames ==
  \A p \in Procs :
    pc[p] = "url_ret" =>
      LET u == loc[p].u
          s == loc[p].s
      IN IF u.nil THEN s = EmptyString
         ELSE /\ s.base = u.base
              /\ KeysOf(s.query) = KeysOf(Params(u.rawQuery))
              /\ \A k \in KeysOf(s.query) :
                   ValsOf(s.query, k) =
                     IF ToLower(k) \in SensitiveParams
                       THEN <<"REDACTED">>
                       ELSE ValsOf(Params(u.rawQuery), k)

\* ?KEY=a&p=b with "p" in the redacted-key set: KEY is redacted and p is not.
C28_Witness ==
  \E p \in Procs :
    /\ pc[p] = "url_ret"
    /\ <<112>> \in maps[redactedKeysSnapshot]
    /\ ~loc[p].u.nil
    /\ loc[p].u.rawQuery = <<[key |-> <<75, 69, 89>>, val |-> "a", ok |-> TRUE],
                             [key |-> <<112>>, val |-> "b", ok |-> TRUE]>>
    /\ loc[p].s.query = <<[key |-> <<75, 69, 89>>, val |-> "REDACTED"],
                          [key |-> <<112>>, val |-> "b"]>>

\* The current threshold: the value of the package's LevelVar.
Threshold == lvVal[levelVar]

\* C29: the level test of a log call on the installed logger, for the logger
\* that Configure built, lets the record through to the sinks if and only if
\* its level is at or above the current threshold; the levelVar.Set step of
\* Configure(cfg) makes cfg.Level the threshold.
C29_DeliveredFromThresholdUp ==
  [][\A p \in Procs :
       /\ (/\ pc[p] = "log_enabled"
           /\ (loc'[p] # loc[p] \/ pc'[p] # pc[p])
           /\ logger # Nil
           /\ loc[p].l = logger
           /\ logger.by # "caller")
            => (pc'[p] = "log_handle" <=> loc[p].level >= Threshold)
       /\ (pc[p] = "cfg_setlevel" /\ pc'[p] # pc[p])
            => Threshold' = loc[p].cfg.Level]_vars

\* The step of rotate by p that opens the new file of r.path with success,
\* after the rename has made the backup.
ReopenedAfterRename(p) == pc[p] = "rot_open" /\ rotator'.f # rotator.f

\* What the names matching <path>.* become when all but the newest k of
\* them are deleted: the kept ones are k of the names, each with its file,
\* and every deleted name sorts before every kept one.
PrunedTo(k) ==
  LET kept == Backups(dir')
      gone == Backups(dir) \ kept
  IN IF Cardinality(Backups(dir)) > k
       THEN /\ kept \subseteq Backups(dir)
            /\ Cardinality(kept) = k
            /\ \A x \in gone, y \in kept : x < y
            /\ \A y \in kept : dir'[y] = dir[y]
       ELSE kept = Backups(dir) /\ \A y \in kept : dir'[y] = dir[y]

\* C30 as stated: after a rotation that succeeded, the excess of the names
\* matching <path>.* over maxBackups is deleted, smallest names first, for
\* every maxBackups, and r.path still names the file that was opened.
C30_PrunesOldestExcess ==
  [][\A p \in Procs :
       ReopenedAfterRename(p) =>
         /\ PrunedTo(rotator.backups)
         /\ 0 \in DOMAIN dir' /\ dir'[0] = handles'[rotator'.f].ino]_vars

\* C30, amended: for a rotator with maxBackups > 0, after a rotation that
\* succeeded the excess of the names matching <path>.* over maxBackups is
\* deleted, smallest names first, and the newest maxBackups keep their
\* files; for every maxBackups, r.path still names the file that was opened.
C30_PrunesOldestExcessOfPositiveLimit ==
  [][\A p \in Procs :
       ReopenedAfterRename(p) =>
         /\ rotator.backups > 0 => PrunedTo(rotator.backups)
         /\ 0 \in DOMAIN dir' /\ dir'[0] = handles'[rotator'.f].ino]_vars

\* The first Write rotated with success in a second of its own, on a
\* directory that had two backups and with maxBackups = 1: both old backups
\* are deleted and the new one is kept.
C30_Witness ==
  /\ rotator.backups = 1
  /\ Len(inodes) >= 4
  /\ Len(writes) >= 1 /\ writes[1].rotated
  /\ writes[1].ts > Format(2 * TicksPerSecond)
  /\ Backups(dir) = {writes[1].ts}
  /\ 0 \in DOMAIN dir

\* The Write call of p is at its write after a rotate whose rename failed
\* and whose reopening of r.path succeeded.
ReopenedAfterFailedRename(p) ==
  /\ pc[p] = "w_write"
  /\ writes[loc[p].wid].attempt /\ writes[loc[p].wid].ts = 0
  /\ rotator.f # 0 /\ handles[rotator.f].open

\* C31: a failed rename changes no name; the reopening of r.path that
\* succeeds after it leaves the backups as they were and r.f an open file of
\* r.path with r.size the length of that file; the Write that called rotate
\* then appends its whole payload to that file.
C31_FailedRenameReopensAndWrites ==
  [][\A p \in Procs :
       /\ pc[p] = "rot_rename" /\ pc'[p] = "rot_reopen" => dir' = dir
       /\ pc[p] = "rot_reopen" /\ rotator'.f # rotator.f =>
            /\ Backups(dir') = Backups(dir)
            /\ \A x \in Backups(dir) : dir'[x] = dir[x]
            /\ rotator'.f # 0 /\ handles'[rotator'.f].open
            /\ 0 \in DOMAIN dir' /\ handles'[rotator'.f].ino = dir'[0]
            /\ rotator'.size = SumN(inodes'[dir'[0]])
       /\ ReopenedAfterFailedRename(p) /\ pc'[p] = "w_ret" =>
            /\ dir' = dir /\ handles[rotator.f].ino = dir[0]
            /\ inodes'[dir[0]] =
                 Append(inodes[dir[0]], [w |-> loc[p].wid, n |-> loc[p].n])
            /\ rotator'.size = SumN(inodes'[dir[0]])]_vars

\* A Write whose rename failed has put its payload after bytes that the
\* file of r.path already held, and a backup of an earlier rotation is
\* still there.
C31_Witness ==
  \E i \in DOMAIN writes :
    /\ writes[i].done /\ writes[i].attempt /\ writes[i].ts = 0
    /\ writes[i].wrote = writes[i].n
    /\ 0 \in DOMAIN dir /\ writes[i].ino = dir[0]
    /\ Len(inodes[dir[0]]) >= 2
    /\ Backups(dir) # {}

\* The files that have a name in the directory.
Files(d) == {d[x] : x \in DOMAIN d}

\* C32: with backups = 0 no step of the rotator takes a file out of the
\* directory, and every rename of a rotation makes the backups one more.
C32_ZeroBackupsKeepsEveryFile ==
  [][rotator.backups = 0 =>
       /\ Files(dir) \subseteq Files(dir')
       /\ \A p \in Procs :
            pc[p] = "rot_rename" /\ pc'[p] = "rot_open" =>
              Cardinality(Backups(dir')) = Cardinality(Backups(dir)) + 1]_vars

\* C33: the logger that Logger() returns to a log call is never nil, so no
\* log call panics on it, whatever Configure, SetLogger and Reset calls run
\* beside it.
C33_LoggerNeverNil ==
  \A p \in Procs :
    /\ pc[p] = "log_enabled" => loc[p].l # Nil
    /\ pc[p] # "panic"

\* C34: a log call hands its record to no sink on which a Close call has
\* been issued.
C34_NoWriteAfterClose ==
  [][\A p \in Procs :
       /\ pc[p] = "log_write" /\ loc'[p] # loc[p]
       /\ loc[p].l.h[loc[p].i] \in DOMAIN closeCount
       => closeCount[loc[p].l.h[loc[p].i]] = 0]_vars

\* C35: a Write that holds the lock of a rotator whose r.f is nil (Close has
\* set it so) opens no handle, renames nothing and appends nothing, leaves
\* r.f nil, and returns an error.
C35_WriteAfterCloseTouchesNothing ==
  [][\A p \in Procs :
       /\ pc[p] \in {"rot_close", "rot_rename", "rot_reopen", "rot_open",
                     "w_write"}
       /\ rotator.f = 0
       => /\ handles' = handles /\ dir' = dir /\ inodes' = inodes
          /\ rotator'.f = 0
          /\ pc'[p] = "w_ret" => writes'[loc[p].wid].err]_vars

\* C36: no Close call is issued on the sink that currentCloser holds, and
\* between the calls of the one caller no sink of the installed logger has
\* had a Close call.
C36_InstalledSinkStaysOpen ==
  /\ [][\A s \in DOMAIN closeCount :
          closeCount'[s] > closeCount[s] => currentCloser # s]_vars
  /\ [](pc[1] = "idle" /\ logger # Nil =>
          \A s \in Range(logger.h) \cap DOMAIN closeCount : closeCount[s] = 0)

Max(a, b) == IF a >= b THEN a ELSE b

\* C37: while every rotation has succeeded, the file of r.path holds at most
\* max(maxSize, len(p)) bytes when Write(p) has written, and at most maxSize
\* bytes after a Write when no payload so far was longer than maxSize,
\* whatever the file held when the rotator was made.
C37_ActiveFileBounded ==
  /\ [][\A p \in Procs :
          /\ pc[p] = "w_write" /\ pc'[p] = "w_ret"
          /\ rotator.maxSize > 0 /\ NoRotationFailed
          => /\ 0 \in DOMAIN dir'
             /\ SumN(inodes'[dir'[0]]) <= Max(rotator.maxSize, loc[p].n)]_vars
  /\ [](/\ rotator.maxSize > 0 /\ NoRotationFailed /\ Settled
        /\ \E i \in DOMAIN writes : writes[i].done
        /\ \A i \in DOMAIN writes : writes[i].n <= rotator.maxSize
        => 0 \in DOMAIN dir /\ Size(dir[0]) <= rotator.maxSize)

\* The rotator was made on a file of more than maxSize bytes; its first
\* Write has moved that file to a backup and the file of r.path holds the
\* payload only.
C37_Witness ==
  /\ Len(writes) >= 1 /\ writes[1].done /\ writes[1].rotated
  /\ inodes[1] # <<>> /\ inodes[1][1].w = 0
  /\ inodes[1][1].n > rotator.maxSize
  /\ writes[1].n <= rotator.maxSize
  /\ 0 \in DOMAIN dir /\ Size(dir[0]) = writes[1].n

\* C38: when every call has returned and the installed logger is one that
\* Configure built, its handlers filter on the package's current LevelVar.
C38_InstalledLoggerFiltersOnLevelVar ==
  /\ \A p \in Procs : pc[p] = "idle"
  /\ logger # Nil /\ logger.by # "caller"
  => logger.lv = levelVar

\* C39: a chain built with StacktraceLevel = Info, which is 0, hands every
\* record to the terminal handlers with no "stack" attribute and has no
\* stack handler in it; a chain built with StacktraceLevel = Debug hands
\* every record of Debug, Info, Warn or Error on with the "stack" attribute
\* last.
C39_InfoStackLevelIsNoStackLevel ==
  \A p \in Procs :
    pc[p] = "h_ret" =>
      /\ loc[p].stacktraceLevel = LevelInfo =>
           /\ ComposeHandler(<<loc[p].base>>, LevelInfo) =
                newRedactionHandler(loc[p].base)
           /\ \A i \in DOMAIN loc[p].calls :
                StackAttrs(loc[p].calls[i].rec.attrs) = {}
      /\ loc[p].stacktraceLevel = LevelDebug =>
           \A i \in DOMAIN loc[p].calls :
             LET got == loc[p].calls[i].rec.attrs
             IN StackAttrs(got) = {Len(got)}

\* An Error record and a chain with StacktraceLevel = Info: both terminal
\* handlers got it without a stack.
C39_Witness ==
  \E p \in Procs :
    /\ pc[p] = "h_ret" /\ loc[p].stacktraceLevel = LevelInfo
    /\ loc[p].hdr.level = LevelError
    /\ Len(loc[p].calls) = 2
    /\ \A i \in DOMAIN loc[p].calls :
         StackAttrs(loc[p].calls[i].rec.attrs) = {}

\* The key set that readers get: the map redactedKeysSnapshot holds.
Published == maps[redactedKeysSnapshot]

\* C40: the Store that ends SetRedactedKeys(K) or AddRedactedKeys(K)
\* publishes the set published before united with the lower-cased K, the
\* same for both; a step that takes a key out of the published set or out
\* of redactedKeys is a step of ClearRedactedKeys; and every published key
\* is lower-case.
C40_SetRedactedKeysAdds ==
  /\ [][/\ \A p \in Procs :
             pc[p] = "set_loop" /\ pc'[p] = "idle" =>
               /\ loc[p].op \in {"SetRedactedKeys", "AddRedactedKeys"}
               /\ Published' = Published \cup loc[p].mine
        /\ ~(Published \subseteq Published'
               /\ maps[redactedKeys] \subseteq maps'[redactedKeys']) =>
             \E q \in Procs :
               pc[q] \in {"clr_new", "clr_store"} /\ pc'[q] # pc[q]]_vars
  /\ [](\A k \in Published : k = ToLower(k))

\* SetRedactedKeys was given "P" or "p" while the set held "q", and is about
\* to publish the two lower-case keys.
C40_Witness ==
  \E p \in Procs :
    /\ pc[p] = "set_loop" /\ loc[p].op = "SetRedactedKeys"
    /\ loc[p].keys = <<>>
    /\ loc[p].mine = {<<112>>}
    /\ Published = {<<113>>}
    /\ maps[redactedKeys] = {<<112>>, <<113>>}

====
